---------------------------- MODULE Spec2Model ----------------------------
(***************************************************************************)
(* Guest memory subsystem of core/memory.cpp: page tables, the rasterizer  *)
(* cache marker, mapping, typed and block accesses, and the rasterizer     *)
(* mark / flush entry points.                                              *)
(*                                                                         *)
(* The address map is the one of core/memory.h scaled down: a page has     *)
(* 2^PAGE_BITS bytes, every window is one or two pages long, and the       *)
(* windows keep their relative order, their aliasing (both linear heaps    *)
(* onto FCRAM) and their sizes' relations (LINEAR_HEAP_SIZE = FCRAM_SIZE,  *)
(* NEW_LINEAR_HEAP_SIZE = FCRAM_N3DS_SIZE).                                *)
(***************************************************************************)
EXTENDS Integers, Sequences, FiniteSets, TLC

(***************************************************************************)
(* Address map (core/memory.h, scaled).                                    *)
(***************************************************************************)
PAGE_BITS == 3
PAGE_SIZE == 2 ^ PAGE_BITS
PAGE_MASK == PAGE_SIZE - 1
PAGE_TABLE_NUM_ENTRIES == 5
\* width of VAddr / PAddr / u32 arithmetic
AddrBits == 7
U32(x) == x % (2 ^ AddrBits)

\* physical windows
VRAM_PADDR == 1 * PAGE_SIZE
VRAM_SIZE == 1 * PAGE_SIZE
VRAM_PADDR_END == VRAM_PADDR + VRAM_SIZE
N3DS_EXTRA_RAM_PADDR == 3 * PAGE_SIZE
N3DS_EXTRA_RAM_SIZE == 1 * PAGE_SIZE
N3DS_EXTRA_RAM_PADDR_END == N3DS_EXTRA_RAM_PADDR + N3DS_EXTRA_RAM_SIZE
DSP_RAM_PADDR == 5 * PAGE_SIZE
DSP_RAM_SIZE == 1 * PAGE_SIZE
DSP_RAM_PADDR_END == DSP_RAM_PADDR + DSP_RAM_SIZE
FCRAM_PADDR == 7 * PAGE_SIZE
FCRAM_SIZE == 1 * PAGE_SIZE
FCRAM_N3DS_SIZE == 2 * PAGE_SIZE
FCRAM_PADDR_END == FCRAM_PADDR + FCRAM_SIZE
FCRAM_N3DS_PADDR_END == FCRAM_PADDR + FCRAM_N3DS_SIZE

\* virtual windows
LINEAR_HEAP_VADDR == 1 * PAGE_SIZE
LINEAR_HEAP_SIZE == FCRAM_SIZE
LINEAR_HEAP_VADDR_END == LINEAR_HEAP_VADDR + LINEAR_HEAP_SIZE
VRAM_VADDR == 2 * PAGE_SIZE
VRAM_VADDR_END == VRAM_VADDR + VRAM_SIZE
NEW_LINEAR_HEAP_VADDR == 3 * PAGE_SIZE
NEW_LINEAR_HEAP_SIZE == FCRAM_N3DS_SIZE
NEW_LINEAR_HEAP_VADDR_END == NEW_LINEAR_HEAP_VADDR + NEW_LINEAR_HEAP_SIZE

(***************************************************************************)
(* Values.                                                                 *)
(***************************************************************************)
\* PageType
Unmapped == "Unmapped"
Memory == "Memory"
RasterizerCachedMemory == "RasterizerCachedMemory"
PageType == {Unmapped, Memory, RasterizerCachedMemory}

\* host pointers: <<buffer, byte offset>>; nullptr
NULL == <<"null", 0>>
PtrAdd(p, n) == <<p[1], p[2] + n>>

\* the guest processes, each owning one PageTable (process.vm_manager.page_table)
Tables == {"A", "B"}
NoTable == "none"

\* byte buffers a page-table entry can point into: the three owned backing
\* stores, DSP RAM, and one page of host memory owned by the caller
BufSize(b) ==
    CASE b = "fcram" -> FCRAM_N3DS_SIZE
      [] b = "vram" -> VRAM_SIZE
      [] b = "n3ds_extra_ram" -> N3DS_EXTRA_RAM_SIZE
      [] b = "dsp" -> DSP_RAM_SIZE
      [] b = "host" -> PAGE_SIZE
Buffers == {"fcram", "vram", "n3ds_extra_ram", "dsp", "host"}

Pages == 0 .. (PAGE_TABLE_NUM_ENTRIES - 1)
Min(a, b) == IF a < b THEN a ELSE b
Max(a, b) == IF a > b THEN a ELSE b

VARIABLES
    attributes,          \* [Tables -> [Pages -> PageType]]   PageTable::attributes
    pointers,            \* [Tables -> [Pages -> pointer]]    PageTable::pointers
    cache_marker,        \* Impl::cache_marker: one bool array per window
    page_table_list,     \* Impl::page_table_list
    current_page_table,  \* Impl::current_page_table
    mem,                 \* contents of the byte buffers
    aborted,             \* an ASSERT / UNREACHABLE fired: the process is gone
    op,                  \* the call that produced this state, with its arguments
    trace,               \* what that call did, in order: rasterizer calls and writes
    ret,                 \* what that call returned
    marked,              \* history: physical pages whose latest completed mark was cached=true
    pre,                 \* history: page tables as they were before a Map / mark(true)
    rasterizer           \* where the rasterizer thread is in a RasterizerMarkRegionCached call

vars == <<attributes, pointers, cache_marker, page_table_list, current_page_table,
          mem, aborted, op, trace, ret, marked, pre, rasterizer>>

(***************************************************************************)
(* RasterizerCacheMarker                                                   *)
(***************************************************************************)
\* the array and index At(addr) points at, or <<"none", 0>> for nullptr
At(addr) ==
    IF addr >= VRAM_VADDR /\ addr < VRAM_VADDR_END
    THEN <<"vram", (addr - VRAM_VADDR) \div PAGE_SIZE>>
    ELSE IF addr >= LINEAR_HEAP_VADDR /\ addr < LINEAR_HEAP_VADDR_END
    THEN <<"linear_heap", (addr - LINEAR_HEAP_VADDR) \div PAGE_SIZE>>
    ELSE IF addr >= NEW_LINEAR_HEAP_VADDR /\ addr < NEW_LINEAR_HEAP_VADDR_END
    THEN <<"new_linear_heap", (addr - NEW_LINEAR_HEAP_VADDR) \div PAGE_SIZE>>
    ELSE <<"none", 0>>

MarkerInit ==
    [vram |-> [i \in 0 .. (VRAM_SIZE \div PAGE_SIZE - 1) |-> FALSE],
     linear_heap |-> [i \in 0 .. (LINEAR_HEAP_SIZE \div PAGE_SIZE - 1) |-> FALSE],
     new_linear_heap |-> [i \in 0 .. (NEW_LINEAR_HEAP_SIZE \div PAGE_SIZE - 1) |-> FALSE]]

Mark(marker, addr, cached) ==
    LET p == At(addr) IN
    IF p[1] = "none" THEN marker
    ELSE [marker EXCEPT ![p[1]][p[2]] = cached]

IsCached(marker, addr) ==
    LET p == At(addr) IN
    IF p[1] = "none" THEN FALSE ELSE marker[p[1]][p[2]]

(***************************************************************************)
(* Flush dispatcher                                                        *)
(***************************************************************************)
Flush == "Flush"
Invalidate == "Invalidate"
FlushAndInvalidate == "FlushAndInvalidate"

\* Events of a trace are <<kind, space, address, size>>: a rasterizer call
\* <<mode, "paddr", physical_start, size>>, a page-table entry write
\* <<"entry", "page", page, 1>>, a host memory access <<"load" or "store", buffer,
\* offset, size>>.
\* (mutant) CheckRegion that passes the physical base of the window
CheckRegion_WindowBase(start, end, mode, region_start, region_end, paddr_region_start) ==
    IF start >= region_end \/ end <= region_start
    THEN <<>>
    ELSE LET overlap_start == Max(start, region_start)
             overlap_end == Min(end, region_end)
             overlap_size == U32(overlap_end - overlap_start)
         IN <<<<mode, "paddr", paddr_region_start, overlap_size>>>>

\* The rasterizer call CheckRegion makes, as a sequence of zero or one event.
CheckRegion(start, end, mode, region_start, region_end, paddr_region_start) ==
    IF start >= region_end \/ end <= region_start
    THEN <<>>
    ELSE LET overlap_start == Max(start, region_start)
             overlap_end == Min(end, region_end)
             physical_start == paddr_region_start + (overlap_start - region_start)
             overlap_size == U32(overlap_end - overlap_start)
         IN <<<<mode, "paddr", physical_start, overlap_size>>>>

RasterizerFlushVirtualRegion(start, size, mode) ==
    LET end == U32(start + size) IN
    CheckRegion(start, end, mode, LINEAR_HEAP_VADDR, LINEAR_HEAP_VADDR_END, FCRAM_PADDR)
    \o CheckRegion(start, end, mode, NEW_LINEAR_HEAP_VADDR, NEW_LINEAR_HEAP_VADDR_END,
                   FCRAM_PADDR)
    \o CheckRegion(start, end, mode, VRAM_VADDR, VRAM_VADDR_END, VRAM_PADDR)

(***************************************************************************)
(* Mapping                                                                 *)
(***************************************************************************)
\* (mutant) MapLoop without the marker check of lines 97-101
RECURSIVE MapLoop_NoInherit(_, _, _, _, _, _, _)
MapLoop_NoInherit(attrs, ptrs, marker, base, end, memory, type) ==
    IF base = end
    THEN [attributes |-> attrs, pointers |-> ptrs, aborted |-> FALSE, trace |-> <<>>]
    ELSE IF ~(base < PAGE_TABLE_NUM_ENTRIES)
    THEN [attributes |-> attrs, pointers |-> ptrs, aborted |-> TRUE, trace |-> <<>>]
    ELSE LET rest == MapLoop_NoInherit([attrs EXCEPT ![base] = type],
                                       [ptrs EXCEPT ![base] = memory], marker, base + 1, end,
                                       IF memory # NULL THEN PtrAdd(memory, PAGE_SIZE)
                                       ELSE memory, type)
         IN [rest EXCEPT !.trace = <<<<"entry", "page", base, 1>>>> \o @]

\* (mutant) MapLoop that applies the marker check to every type, Unmapped included
RECURSIVE MapLoop_AnyType(_, _, _, _, _, _, _)
MapLoop_AnyType(attrs, ptrs, marker, base, end, memory, type) ==
    IF base = end
    THEN [attributes |-> attrs, pointers |-> ptrs, aborted |-> FALSE, trace |-> <<>>]
    ELSE IF ~(base < PAGE_TABLE_NUM_ENTRIES)
    THEN [attributes |-> attrs, pointers |-> ptrs, aborted |-> TRUE, trace |-> <<>>]
    ELSE LET inherit == IsCached(marker, base * PAGE_SIZE)
             attrs1 == [attrs EXCEPT ![base] = IF inherit THEN RasterizerCachedMemory
                                               ELSE type]
             ptrs1 == [ptrs EXCEPT ![base] = IF inherit THEN NULL ELSE memory]
             rest == MapLoop_AnyType(attrs1, ptrs1, marker, base + 1, end,
                                     IF memory # NULL THEN PtrAdd(memory, PAGE_SIZE)
                                     ELSE memory, type)
         IN [rest EXCEPT !.trace = <<<<"entry", "page", base, 1>>>> \o @]

\* The while loop of MapPages over one table tbl = [attributes, pointers]:
\* the result [attributes, pointers, aborted, trace].
RECURSIVE MapLoop(_, _, _, _, _, _, _)
MapLoop(attrs, ptrs, marker, base, end, memory, type) ==
    IF base = end
    THEN [attributes |-> attrs, pointers |-> ptrs, aborted |-> FALSE, trace |-> <<>>]
    ELSE IF ~(base < PAGE_TABLE_NUM_ENTRIES)
    THEN [attributes |-> attrs, pointers |-> ptrs, aborted |-> TRUE, trace |-> <<>>]
    ELSE LET inherit == type = Memory /\ IsCached(marker, base * PAGE_SIZE)
             attrs1 == [attrs EXCEPT ![base] = IF inherit THEN RasterizerCachedMemory
                                               ELSE type]
             ptrs1 == [ptrs EXCEPT ![base] = IF inherit THEN NULL ELSE memory]
             rest == MapLoop(attrs1, ptrs1, marker, base + 1, end,
                             IF memory # NULL THEN PtrAdd(memory, PAGE_SIZE) ELSE memory,
                             type)
         IN [rest EXCEPT !.trace = <<<<"entry", "page", base, 1>>>> \o @]

\* (mutant) MapPages that flushes after it has written the entries
MapPages_FlushLast(attrs, ptrs, marker, base, size, memory, type) ==
    LET flush == RasterizerFlushVirtualRegion(U32(base * PAGE_SIZE), size * PAGE_SIZE,
                                              FlushAndInvalidate)
        loop == MapLoop(attrs, ptrs, marker, base, base + size, memory, type)
    IN [loop EXCEPT !.trace = @ \o flush]

MapPages(attrs, ptrs, marker, base, size, memory, type) ==
    LET flush == RasterizerFlushVirtualRegion(U32(base * PAGE_SIZE), size * PAGE_SIZE,
                                              FlushAndInvalidate)
        loop == MapLoop(attrs, ptrs, marker, base, base + size, memory, type)
    IN [loop EXCEPT !.trace = flush \o @]

(***************************************************************************)
(* Physical <-> virtual translation                                        *)
(***************************************************************************)
ABORT == <<"abort", 0>>

\* (mutant) GetPointerForRasterizerCache that takes the new linear heap for VRAM
GetPointer_NewLinearAsVram(addr) ==
    IF addr >= LINEAR_HEAP_VADDR /\ addr < LINEAR_HEAP_VADDR_END
    THEN <<"fcram", addr - LINEAR_HEAP_VADDR>>
    ELSE IF addr >= NEW_LINEAR_HEAP_VADDR /\ addr < NEW_LINEAR_HEAP_VADDR_END
    THEN <<"vram", (addr - NEW_LINEAR_HEAP_VADDR) % VRAM_SIZE>>
    ELSE IF addr >= VRAM_VADDR /\ addr < VRAM_VADDR_END
    THEN <<"vram", addr - VRAM_VADDR>>
    ELSE ABORT

\* the backing pointer of a cacheable virtual address; ABORT is UNREACHABLE()
GetPointerForRasterizerCache(addr) ==
    IF addr >= LINEAR_HEAP_VADDR /\ addr < LINEAR_HEAP_VADDR_END
    THEN <<"fcram", addr - LINEAR_HEAP_VADDR>>
    ELSE IF addr >= NEW_LINEAR_HEAP_VADDR /\ addr < NEW_LINEAR_HEAP_VADDR_END
    THEN <<"fcram", addr - NEW_LINEAR_HEAP_VADDR>>
    ELSE IF addr >= VRAM_VADDR /\ addr < VRAM_VADDR_END
    THEN <<"vram", addr - VRAM_VADDR>>
    ELSE ABORT

\* (mutant) only the linear-heap alias of an FCRAM address
PhysicalToVirtual_FirstAliasOnly(addr) ==
    IF addr >= VRAM_PADDR /\ addr < VRAM_PADDR_END
    THEN <<addr - VRAM_PADDR + VRAM_VADDR>>
    ELSE IF addr >= FCRAM_PADDR /\ addr < FCRAM_PADDR_END
    THEN <<addr - FCRAM_PADDR + LINEAR_HEAP_VADDR>>
    ELSE IF addr >= FCRAM_PADDR_END /\ addr < FCRAM_N3DS_PADDR_END
    THEN <<addr - FCRAM_PADDR + NEW_LINEAR_HEAP_VADDR>>
    ELSE <<>>

\* (mutant) PhysicalToVirtualAddressForRasterizer with the two aliases swapped
PhysicalToVirtual_NewHeapFirst(addr) ==
    IF addr >= VRAM_PADDR /\ addr < VRAM_PADDR_END
    THEN <<addr - VRAM_PADDR + VRAM_VADDR>>
    ELSE IF addr >= FCRAM_PADDR /\ addr < FCRAM_PADDR_END
    THEN <<addr - FCRAM_PADDR + NEW_LINEAR_HEAP_VADDR, addr - FCRAM_PADDR + LINEAR_HEAP_VADDR>>
    ELSE IF addr >= FCRAM_PADDR_END /\ addr < FCRAM_N3DS_PADDR_END
    THEN <<addr - FCRAM_PADDR + NEW_LINEAR_HEAP_VADDR>>
    ELSE <<>>

PhysicalToVirtualAddressForRasterizer(addr) ==
    IF addr >= VRAM_PADDR /\ addr < VRAM_PADDR_END
    THEN <<addr - VRAM_PADDR + VRAM_VADDR>>
    ELSE IF addr >= FCRAM_PADDR /\ addr < FCRAM_PADDR_END
    THEN <<addr - FCRAM_PADDR + LINEAR_HEAP_VADDR, addr - FCRAM_PADDR + NEW_LINEAR_HEAP_VADDR>>
    ELSE IF addr >= FCRAM_PADDR_END /\ addr < FCRAM_N3DS_PADDR_END
    THEN <<addr - FCRAM_PADDR + NEW_LINEAR_HEAP_VADDR>>
    ELSE <<>>

(***************************************************************************)
(* RasterizerMarkRegionCached                                              *)
(***************************************************************************)
\* (mutant) MarkTable that leaves the pointer of a page it marks cached
MarkTable_KeepPointer(st, t, vaddr, cached) ==
    LET page == vaddr \div PAGE_SIZE
        page_type == st.attributes[t][page]
    IN IF cached
       THEN CASE page_type = Unmapped -> st
              [] page_type = Memory ->
                   [st EXCEPT !.attributes[t][page] = RasterizerCachedMemory]
              [] OTHER -> [st EXCEPT !.aborted = TRUE]
       ELSE CASE page_type = Unmapped -> st
              [] page_type = RasterizerCachedMemory ->
                   LET p == GetPointerForRasterizerCache(vaddr - (vaddr % PAGE_SIZE)) IN
                   IF p = ABORT THEN [st EXCEPT !.aborted = TRUE]
                   ELSE [st EXCEPT !.attributes[t][page] = Memory,
                                   !.pointers[t][page] = p]
              [] OTHER -> [st EXCEPT !.aborted = TRUE]

\* (mutant) MarkTable that leaves the pointer null when it unmarks a page
MarkTable_NoRestore(st, t, vaddr, cached) ==
    LET page == vaddr \div PAGE_SIZE
        page_type == st.attributes[t][page]
    IN IF cached
       THEN CASE page_type = Unmapped -> st
              [] page_type = Memory ->
                   [st EXCEPT !.attributes[t][page] = RasterizerCachedMemory,
                              !.pointers[t][page] = NULL]
              [] OTHER -> [st EXCEPT !.aborted = TRUE]
       ELSE CASE page_type = Unmapped -> st
              [] page_type = RasterizerCachedMemory ->
                   [st EXCEPT !.attributes[t][page] = Memory,
                              !.pointers[t][page] = NULL]
              [] OTHER -> [st EXCEPT !.aborted = TRUE]

\* (mutant) MarkTable that accepts an entry that is already in the state asked for
MarkTable_Idempotent(st, t, vaddr, cached) ==
    LET page == vaddr \div PAGE_SIZE
        page_type == st.attributes[t][page]
    IN IF cached
       THEN CASE page_type = Memory ->
                   [st EXCEPT !.attributes[t][page] = RasterizerCachedMemory,
                              !.pointers[t][page] = NULL]
              [] OTHER -> st
       ELSE CASE page_type = RasterizerCachedMemory ->
                   [st EXCEPT !.attributes[t][page] = Memory,
                              !.pointers[t][page] =
                                  GetPointerForRasterizerCache(vaddr - (vaddr % PAGE_SIZE))]
              [] OTHER -> st

\* the body of the innermost loop for one page table t at vaddr:
\* st = [attributes, pointers, cache_marker, aborted]
MarkTable(st, t, vaddr, cached) ==
    LET page == vaddr \div PAGE_SIZE
        page_type == st.attributes[t][page]
    IN IF cached
       THEN CASE page_type = Unmapped -> st
              [] page_type = Memory ->
                   [st EXCEPT !.attributes[t][page] = RasterizerCachedMemory,
                              !.pointers[t][page] = NULL]
              [] OTHER -> [st EXCEPT !.aborted = TRUE]
       ELSE CASE page_type = Unmapped -> st
              [] page_type = RasterizerCachedMemory ->
                   LET p == GetPointerForRasterizerCache(vaddr - (vaddr % PAGE_SIZE)) IN
                   IF p = ABORT THEN [st EXCEPT !.aborted = TRUE]
                   ELSE [st EXCEPT !.attributes[t][page] = Memory,
                                   !.pointers[t][page] = p]
              [] OTHER -> [st EXCEPT !.aborted = TRUE]

\* (mutant) MarkTables that visits every page table, registered or not
RECURSIVE MarkTables_Everyone(_, _, _, _, _)
MarkTables_Everyone(st, list, k, vaddr, cached) ==
    IF st.aborted \/ k > 2 THEN st
    ELSE MarkTables_Everyone(MarkTable(st, <<"A", "B">>[k], vaddr, cached), list, k + 1,
                             vaddr, cached)

\* for (auto page_table : page_table_list), from index k on
RECURSIVE MarkTables(_, _, _, _, _)
MarkTables(st, list, k, vaddr, cached) ==
    IF st.aborted \/ k > Len(list) THEN st
    ELSE MarkTables(MarkTable(st, list[k], vaddr, cached), list, k + 1, vaddr, cached)

\* for (VAddr vaddr : PhysicalToVirtualAddressForRasterizer(paddr)), from index j on
RECURSIVE MarkAliases(_, _, _, _, _)
MarkAliases(st, list, vaddrs, j, cached) ==
    IF st.aborted \/ j > Len(vaddrs) THEN st
    ELSE LET st1 == [st EXCEPT !.cache_marker = Mark(@, vaddrs[j], cached)]
         IN MarkAliases(MarkTables(st1, list, 1, vaddrs[j], cached), list, vaddrs, j + 1,
                        cached)

\* for (unsigned i = 0; i < num_pages; ++i, paddr += PAGE_SIZE), from i on
RECURSIVE MarkPages(_, _, _, _, _, _)
MarkPages(st, list, i, num_pages, paddr, cached) ==
    IF st.aborted \/ ~(i < num_pages) THEN st
    ELSE MarkPages(MarkAliases(st, list, PhysicalToVirtualAddressForRasterizer(paddr), 1,
                               cached),
                   list, i + 1, num_pages, U32(paddr + PAGE_SIZE), cached)

NumPages(start, size) ==
    U32(U32(U32(start + size - 1) \div PAGE_SIZE) - (start \div PAGE_SIZE) + 1)

MarkRegionCached(st, list, start, size, cached) ==
    IF start = 0 THEN st
    ELSE MarkPages(st, list, 0, NumPages(start, size), start, cached)

(***************************************************************************)
(* Host memory                                                             *)
(***************************************************************************)
\* memcpy out of and into the byte buffers; pointer p = <<buffer, offset>>
Load(m, p, n) == [k \in 1 .. n |-> m[p[1]][p[2] + k - 1]]
Store(m, p, bytes) ==
    [m EXCEPT ![p[1]] = [i \in DOMAIN @ |->
        IF i >= p[2] /\ i < p[2] + Len(bytes) THEN bytes[i - p[2] + 1] ELSE @[i]]]
Zeros(n) == [k \in 1 .. n |-> 0]

\* the object representation of a little-endian T of w bytes (u8, u16_le, ...)
RECURSIVE ToBytes(_, _)
ToBytes(x, w) == IF w = 0 THEN <<>> ELSE <<x % 256>> \o ToBytes(x \div 256, w - 1)
RECURSIVE FromBytes(_)
FromBytes(b) == IF b = <<>> THEN 0 ELSE b[1] + 256 * FromBytes(Tail(b))

(***************************************************************************)
(* Read<T> and Write<T>, T of w bytes, through the current page table      *)
(***************************************************************************)
\* (mutant) Read<T> that reads a cached page without the Flush
Read_NoFlush(w, vaddr) ==
    LET page_pointer == pointers[current_page_table][vaddr \div PAGE_SIZE]
        type == attributes[current_page_table][vaddr \div PAGE_SIZE]
    IN IF page_pointer # NULL
       THEN LET p == PtrAdd(page_pointer, vaddr % PAGE_SIZE) IN
            [ret |-> FromBytes(Load(mem, p, w)), aborted |-> FALSE,
             trace |-> <<<<"load", p[1], p[2], w>>>>]
       ELSE CASE type = Unmapped -> [ret |-> 0, aborted |-> FALSE, trace |-> <<>>]
              [] type = Memory -> [ret |-> 0, aborted |-> TRUE, trace |-> <<>>]
              [] type = RasterizerCachedMemory ->
                   LET p == GetPointerForRasterizerCache(vaddr) IN
                   [ret |-> FromBytes(Load(mem, p, w)), aborted |-> FALSE,
                    trace |-> <<<<"load", p[1], p[2], w>>>>]

\* the result [ret, aborted, trace] of Read<T>(vaddr)
Read(w, vaddr) ==
    LET page_pointer == pointers[current_page_table][vaddr \div PAGE_SIZE]
        type == attributes[current_page_table][vaddr \div PAGE_SIZE]
    IN IF page_pointer # NULL
       THEN LET p == PtrAdd(page_pointer, vaddr % PAGE_SIZE) IN
            [ret |-> FromBytes(Load(mem, p, w)), aborted |-> FALSE,
             trace |-> <<<<"load", p[1], p[2], w>>>>]
       ELSE CASE type = Unmapped -> [ret |-> 0, aborted |-> FALSE, trace |-> <<>>]
              [] type = Memory -> [ret |-> 0, aborted |-> TRUE, trace |-> <<>>]
              [] type = RasterizerCachedMemory ->
                   LET p == GetPointerForRasterizerCache(vaddr) IN
                   [ret |-> FromBytes(Load(mem, p, w)), aborted |-> FALSE,
                    trace |-> RasterizerFlushVirtualRegion(vaddr, w, Flush)
                              \o <<<<"load", p[1], p[2], w>>>>]

\* (mutant) Write<T> whose fast path ignores the offset in the page
Write_NoOffset(w, vaddr, data) ==
    LET page_pointer == pointers[current_page_table][vaddr \div PAGE_SIZE]
        type == attributes[current_page_table][vaddr \div PAGE_SIZE]
    IN IF page_pointer # NULL
       THEN [mem |-> Store(mem, page_pointer, ToBytes(data, w)), aborted |-> FALSE,
             trace |-> <<<<"store", page_pointer[1], page_pointer[2], w>>>>]
       ELSE CASE type = Unmapped -> [mem |-> mem, aborted |-> FALSE, trace |-> <<>>]
              [] type = Memory -> [mem |-> mem, aborted |-> TRUE, trace |-> <<>>]
              [] type = RasterizerCachedMemory ->
                   LET p == GetPointerForRasterizerCache(vaddr) IN
                   [mem |-> Store(mem, p, ToBytes(data, w)), aborted |-> FALSE,
                    trace |-> RasterizerFlushVirtualRegion(vaddr, w, Invalidate)
                              \o <<<<"store", p[1], p[2], w>>>>]

\* (mutant) Write<T> that stores through the backing pointer of an Unmapped page
Write_Unchecked(w, vaddr, data) ==
    LET page_pointer == pointers[current_page_table][vaddr \div PAGE_SIZE]
        type == attributes[current_page_table][vaddr \div PAGE_SIZE]
    IN IF page_pointer # NULL
       THEN LET p == PtrAdd(page_pointer, vaddr % PAGE_SIZE) IN
            [mem |-> Store(mem, p, ToBytes(data, w)), aborted |-> FALSE,
             trace |-> <<<<"store", p[1], p[2], w>>>>]
       ELSE CASE type = Memory -> [mem |-> mem, aborted |-> TRUE, trace |-> <<>>]
              [] OTHER ->
                   LET p == GetPointerForRasterizerCache(vaddr) IN
                   [mem |-> Store(mem, p, ToBytes(data, w)), aborted |-> FALSE,
                    trace |-> RasterizerFlushVirtualRegion(vaddr, w, Invalidate)
                              \o <<<<"store", p[1], p[2], w>>>>]

\* the result [mem, aborted, trace] of Write<T>(vaddr, data)
Write(w, vaddr, data) ==
    LET page_pointer == pointers[current_page_table][vaddr \div PAGE_SIZE]
        type == attributes[current_page_table][vaddr \div PAGE_SIZE]
    IN IF page_pointer # NULL
       THEN LET p == PtrAdd(page_pointer, vaddr % PAGE_SIZE) IN
            [mem |-> Store(mem, p, ToBytes(data, w)), aborted |-> FALSE,
             trace |-> <<<<"store", p[1], p[2], w>>>>]
       ELSE CASE type = Unmapped -> [mem |-> mem, aborted |-> FALSE, trace |-> <<>>]
              [] type = Memory -> [mem |-> mem, aborted |-> TRUE, trace |-> <<>>]
              [] type = RasterizerCachedMemory ->
                   LET p == GetPointerForRasterizerCache(vaddr) IN
                   [mem |-> Store(mem, p, ToBytes(data, w)), aborted |-> FALSE,
                    trace |-> RasterizerFlushVirtualRegion(vaddr, w, Invalidate)
                              \o <<<<"store", p[1], p[2], w>>>>]

(***************************************************************************)
(* Block operations on the page table of process t                         *)
(***************************************************************************)
\* two steps of a loop in sequence: the second runs on the memory the first left
Then(a, b) == [mem |-> b.mem, buf |-> a.buf \o b.buf, trace |-> a.trace \o b.trace]

\* the while loop of ReadBlock: buf is what it writes to dest_buffer, in order
RECURSIVE ReadBlockLoop(_, _, _, _, _)
ReadBlockLoop(m, t, page_index, page_offset, remaining_size) ==
    IF remaining_size = 0 THEN [mem |-> m, buf |-> <<>>, trace |-> <<>>]
    ELSE LET copy_amount == Min(PAGE_SIZE - page_offset, remaining_size)
             current_vaddr == U32(page_index * PAGE_SIZE + page_offset)
             type == attributes[t][page_index]
             step ==
                 CASE type = Unmapped ->
                        [mem |-> m, buf |-> Zeros(copy_amount), trace |-> <<>>]
                   [] type = Memory ->
                        LET src_ptr == PtrAdd(pointers[t][page_index], page_offset) IN
                        [mem |-> m, buf |-> Load(m, src_ptr, copy_amount),
                         trace |-> <<<<"load", src_ptr[1], src_ptr[2], copy_amount>>>>]
                   [] type = RasterizerCachedMemory ->
                        LET p == GetPointerForRasterizerCache(current_vaddr) IN
                        [mem |-> m, buf |-> Load(m, p, copy_amount),
                         trace |-> RasterizerFlushVirtualRegion(current_vaddr, copy_amount,
                                                                Flush)
                                   \o <<<<"load", p[1], p[2], copy_amount>>>>]
         IN Then(step, ReadBlockLoop(m, t, page_index + 1, 0, remaining_size - copy_amount))

\* (mutant) the loop of WriteBlock that does not advance src_buffer over an
\* Unmapped page
RECURSIVE WriteBlockLoop_Shift(_, _, _, _, _, _)
WriteBlockLoop_Shift(m, t, page_index, page_offset, src_buffer, remaining_size) ==
    IF remaining_size = 0 THEN [mem |-> m, buf |-> <<>>, trace |-> <<>>]
    ELSE LET copy_amount == Min(PAGE_SIZE - page_offset, remaining_size)
             current_vaddr == U32(page_index * PAGE_SIZE + page_offset)
             type == attributes[t][page_index]
             bytes == SubSeq(src_buffer, 1, copy_amount)
             step ==
                 CASE type = Unmapped -> [mem |-> m, buf |-> <<>>, trace |-> <<>>]
                   [] type = Memory ->
                        LET dest_ptr == PtrAdd(pointers[t][page_index], page_offset) IN
                        [mem |-> Store(m, dest_ptr, bytes), buf |-> <<>>,
                         trace |-> <<<<"store", dest_ptr[1], dest_ptr[2], copy_amount>>>>]
                   [] type = RasterizerCachedMemory ->
                        LET p == GetPointerForRasterizerCache(current_vaddr) IN
                        [mem |-> Store(m, p, bytes), buf |-> <<>>,
                         trace |-> RasterizerFlushVirtualRegion(current_vaddr, copy_amount,
                                                                Invalidate)
                                   \o <<<<"store", p[1], p[2], copy_amount>>>>]
         IN Then(step, WriteBlockLoop_Shift(step.mem, t, page_index + 1, 0,
                                            IF type = Unmapped THEN src_buffer
                                            ELSE SubSeq(src_buffer, copy_amount + 1,
                                                        Len(src_buffer)),
                                            remaining_size - copy_amount))

\* the while loop of WriteBlock; src_buffer is the bytes still to be written
RECURSIVE WriteBlockLoop(_, _, _, _, _, _)
WriteBlockLoop(m, t, page_index, page_offset, src_buffer, remaining_size) ==
    IF remaining_size = 0 THEN [mem |-> m, buf |-> <<>>, trace |-> <<>>]
    ELSE LET copy_amount == Min(PAGE_SIZE - page_offset, remaining_size)
             current_vaddr == U32(page_index * PAGE_SIZE + page_offset)
             type == attributes[t][page_index]
             bytes == SubSeq(src_buffer, 1, copy_amount)
             step ==
                 CASE type = Unmapped -> [mem |-> m, buf |-> <<>>, trace |-> <<>>]
                   [] type = Memory ->
                        LET dest_ptr == PtrAdd(pointers[t][page_index], page_offset) IN
                        [mem |-> Store(m, dest_ptr, bytes), buf |-> <<>>,
                         trace |-> <<<<"store", dest_ptr[1], dest_ptr[2], copy_amount>>>>]
                   [] type = RasterizerCachedMemory ->
                        LET p == GetPointerForRasterizerCache(current_vaddr) IN
                        [mem |-> Store(m, p, bytes), buf |-> <<>>,
                         trace |-> RasterizerFlushVirtualRegion(current_vaddr, copy_amount,
                                                                Invalidate)
                                   \o <<<<"store", p[1], p[2], copy_amount>>>>]
         IN Then(step, WriteBlockLoop(step.mem, t, page_index + 1, 0,
                                      SubSeq(src_buffer, copy_amount + 1, Len(src_buffer)),
                                      remaining_size - copy_amount))

\* the while loop of ZeroBlock
RECURSIVE ZeroBlockLoop(_, _, _, _, _)
ZeroBlockLoop(m, t, page_index, page_offset, remaining_size) ==
    IF remaining_size = 0 THEN [mem |-> m, buf |-> <<>>, trace |-> <<>>]
    ELSE LET copy_amount == Min(PAGE_SIZE - page_offset, remaining_size)
             current_vaddr == U32(page_index * PAGE_SIZE + page_offset)
             type == attributes[t][page_index]
             step ==
                 CASE type = Unmapped -> [mem |-> m, buf |-> <<>>, trace |-> <<>>]
                   [] type = Memory ->
                        LET dest_ptr == PtrAdd(pointers[t][page_index], page_offset) IN
                        [mem |-> Store(m, dest_ptr, Zeros(copy_amount)), buf |-> <<>>,
                         trace |-> <<<<"store", dest_ptr[1], dest_ptr[2], copy_amount>>>>]
                   [] type = RasterizerCachedMemory ->
                        LET p == GetPointerForRasterizerCache(current_vaddr) IN
                        [mem |-> Store(m, p, Zeros(copy_amount)), buf |-> <<>>,
                         trace |-> RasterizerFlushVirtualRegion(current_vaddr, copy_amount,
                                                                Invalidate)
                                   \o <<<<"store", p[1], p[2], copy_amount>>>>]
         IN Then(step, ZeroBlockLoop(step.mem, t, page_index + 1, 0,
                                     remaining_size - copy_amount))

\* (mutant) the loop of CopyBlock that looks the source up in the current page table
RECURSIVE CopyBlockLoop_Current(_, _, _, _, _, _, _)
CopyBlockLoop_Current(m, dest_process, src_process, dest_addr, page_index, page_offset, remaining_size) ==
    IF remaining_size = 0 THEN [mem |-> m, buf |-> <<>>, trace |-> <<>>]
    ELSE LET copy_amount == Min(PAGE_SIZE - page_offset, remaining_size)
             cur == IF current_page_table = NoTable THEN dest_process
                    ELSE current_page_table
             type == attributes[cur][page_index]
             step ==
                 CASE type = Unmapped ->
                        ZeroBlockLoop(m, dest_process, dest_addr \div PAGE_SIZE,
                                      dest_addr % PAGE_SIZE, copy_amount)
                   [] OTHER ->
                        LET src_ptr == PtrAdd(pointers[cur][page_index], page_offset) IN
                        WriteBlockLoop(m, dest_process, dest_addr \div PAGE_SIZE,
                                       dest_addr % PAGE_SIZE, Load(m, src_ptr, copy_amount),
                                       copy_amount)
         IN Then(step, CopyBlockLoop_Current(step.mem, dest_process, src_process,
                                             U32(dest_addr + copy_amount), page_index + 1, 0,
                                             remaining_size - copy_amount))

\* (mutant) the loop of CopyBlock that flushes the source after it has written
RECURSIVE CopyBlockLoop_FlushLate(_, _, _, _, _, _, _)
CopyBlockLoop_FlushLate(m, dest_process, src_process, dest_addr, page_index, page_offset, remaining_size) ==
    IF remaining_size = 0 THEN [mem |-> m, buf |-> <<>>, trace |-> <<>>]
    ELSE LET copy_amount == Min(PAGE_SIZE - page_offset, remaining_size)
             current_vaddr == U32(page_index * PAGE_SIZE + page_offset)
             type == attributes[src_process][page_index]
             step ==
                 CASE type = Unmapped ->
                        ZeroBlockLoop(m, dest_process, dest_addr \div PAGE_SIZE,
                                      dest_addr % PAGE_SIZE, copy_amount)
                   [] type = Memory ->
                        LET src_ptr == PtrAdd(pointers[src_process][page_index], page_offset)
                        IN WriteBlockLoop(m, dest_process, dest_addr \div PAGE_SIZE,
                                          dest_addr % PAGE_SIZE,
                                          Load(m, src_ptr, copy_amount), copy_amount)
                   [] type = RasterizerCachedMemory ->
                        LET src_ptr == GetPointerForRasterizerCache(current_vaddr)
                            w == WriteBlockLoop(m, dest_process, dest_addr \div PAGE_SIZE,
                                                dest_addr % PAGE_SIZE,
                                                Load(m, src_ptr, copy_amount), copy_amount)
                        IN [w EXCEPT !.trace =
                               @ \o RasterizerFlushVirtualRegion(current_vaddr, copy_amount,
                                                                 Flush)]
         IN Then(step, CopyBlockLoop_FlushLate(step.mem, dest_process, src_process,
                                               U32(dest_addr + copy_amount), page_index + 1, 0,
                                               remaining_size - copy_amount))

\* the while loop of CopyBlock; the source bytes of a chunk are the ones in host
\* memory when the chunk's WriteBlock starts (source and destination do not overlap)
RECURSIVE CopyBlockLoop(_, _, _, _, _, _, _)
CopyBlockLoop(m, dest_process, src_process, dest_addr, page_index, page_offset, remaining_size) ==
    IF remaining_size = 0 THEN [mem |-> m, buf |-> <<>>, trace |-> <<>>]
    ELSE LET copy_amount == Min(PAGE_SIZE - page_offset, remaining_size)
             current_vaddr == U32(page_index * PAGE_SIZE + page_offset)
             type == attributes[src_process][page_index]
             step ==
                 CASE type = Unmapped ->
                        ZeroBlockLoop(m, dest_process, dest_addr \div PAGE_SIZE,
                                      dest_addr % PAGE_SIZE, copy_amount)
                   [] type = Memory ->
                        LET src_ptr == PtrAdd(pointers[src_process][page_index], page_offset)
                        IN WriteBlockLoop(m, dest_process, dest_addr \div PAGE_SIZE,
                                          dest_addr % PAGE_SIZE,
                                          Load(m, src_ptr, copy_amount), copy_amount)
                   [] type = RasterizerCachedMemory ->
                        LET src_ptr == GetPointerForRasterizerCache(current_vaddr)
                            w == WriteBlockLoop(m, dest_process, dest_addr \div PAGE_SIZE,
                                                dest_addr % PAGE_SIZE,
                                                Load(m, src_ptr, copy_amount), copy_amount)
                        IN [w EXCEPT !.trace =
                               RasterizerFlushVirtualRegion(current_vaddr, copy_amount, Flush)
                               \o @]
         IN Then(step, CopyBlockLoop(step.mem, dest_process, src_process,
                                     U32(dest_addr + copy_amount), page_index + 1, 0,
                                     remaining_size - copy_amount))

(***************************************************************************)
(* Inputs                                                                  *)
(***************************************************************************)
\* Process A is given a linear heap and VRAM, process B a new linear heap.
\* MapMemoryRegion calls <<table, base, size, target>>: each window onto its own
\* backing store; the linear heap of A also as the first of two pages; VRAM onto the
\* caller's memory and onto nullptr; a size of zero; a base that is not page-aligned;
\* a range that leaves the table.
MapCalls ==
    {<<"A", LINEAR_HEAP_VADDR, PAGE_SIZE, <<"fcram", 0>>>>,
     <<"A", LINEAR_HEAP_VADDR, 2 * PAGE_SIZE, <<"fcram", 0>>>>,
     <<"A", VRAM_VADDR, PAGE_SIZE, <<"vram", 0>>>>,
     <<"A", VRAM_VADDR, PAGE_SIZE, <<"host", 0>>>>,
     <<"A", VRAM_VADDR, PAGE_SIZE, NULL>>,
     <<"A", VRAM_VADDR, 0, <<"vram", 0>>>>,
     <<"A", VRAM_VADDR + 1, PAGE_SIZE, <<"vram", 0>>>>,
     <<"B", NEW_LINEAR_HEAP_VADDR, PAGE_SIZE, <<"fcram", 0>>>>,
     <<"B", NEW_LINEAR_HEAP_VADDR + PAGE_SIZE, 2 * PAGE_SIZE, NULL>>}
\* UnmapRegion calls <<table, base, size>>
UnmapCalls ==
    {<<"A", LINEAR_HEAP_VADDR, PAGE_SIZE>>,
     <<"A", LINEAR_HEAP_VADDR, 2 * PAGE_SIZE>>,
     <<"A", VRAM_VADDR, PAGE_SIZE>>,
     <<"A", VRAM_VADDR, 0>>,
     <<"B", NEW_LINEAR_HEAP_VADDR, PAGE_SIZE>>}
\* RasterizerMarkRegionCached ranges <<start, size>>: a VRAM page, the first FCRAM
\* page, FCRAM up to its enhanced-model end, an unaligned start with size 0, start 0,
\* and a range past the end of VRAM
MarkCalls ==
    {<<VRAM_PADDR, PAGE_SIZE>>,
     <<FCRAM_PADDR, PAGE_SIZE>>,
     <<FCRAM_PADDR, 2 * PAGE_SIZE>>,
     <<VRAM_PADDR + 1, 0>>,
     <<0, PAGE_SIZE>>,
     <<VRAM_PADDR, 2 * PAGE_SIZE>>}

NoPre == [set |-> FALSE, attributes |-> <<>>, pointers |-> <<>>]
\* the page tables with the entries of table t in [base, base + size) pages blanked
Outside(f, t, base, size, blank) ==
    [u \in Tables |-> [pg \in Pages |->
        IF u = t /\ pg >= base /\ pg < base + size THEN blank ELSE f[u][pg]]]

(***************************************************************************)
(* State after construction                                                *)
(***************************************************************************)
\* the rasterizer thread is outside RasterizerMarkRegionCached
Idle == [pc |-> "idle"]

Init ==
    /\ attributes = [t \in Tables |-> [pg \in Pages |-> Unmapped]]
    /\ pointers = [t \in Tables |-> [pg \in Pages |-> NULL]]
    /\ cache_marker = MarkerInit
    /\ page_table_list = <<>>
    /\ current_page_table = NoTable
    /\ mem = [b \in Buffers |-> [i \in 0 .. (BufSize(b) - 1) |-> 0]]
    /\ aborted = FALSE
    /\ op = [name |-> "init"]
    /\ trace = <<>>
    /\ ret = 0
    /\ marked = {}
    /\ pre = NoPre
    /\ rasterizer = Idle

CanCall == ~aborted

\* IsValidVirtualAddress(process, vaddr) on the page table of the process
IsValidVirtualAddress(process, vaddr) ==
    LET page_pointer == pointers[process][vaddr \div PAGE_SIZE] IN
    IF page_pointer # NULL THEN TRUE
    ELSE IF attributes[process][vaddr \div PAGE_SIZE] = RasterizerCachedMemory THEN TRUE
    ELSE FALSE

(***************************************************************************)
(* Operations                                                              *)
(***************************************************************************)
SetCurrentPageTable(t) ==
    /\ CanCall /\ UNCHANGED rasterizer
    /\ current_page_table' = t
    /\ op' = [name |-> "SetCurrentPageTable", t |-> t]
    /\ trace' = <<>> /\ ret' = 0 /\ pre' = NoPre
    /\ UNCHANGED <<attributes, pointers, cache_marker, page_table_list, mem, aborted, marked>>

\* MapMemoryRegion and UnmapRegion: the two ASSERTs, then MapPages
MapCall(name, t, base, size, target, type) ==
    LET aligned == (size % PAGE_SIZE) = 0 /\ (base % PAGE_SIZE) = 0
        r == MapPages(attributes[t], pointers[t], cache_marker, base \div PAGE_SIZE,
                      size \div PAGE_SIZE, target, type)
    IN /\ CanCall /\ UNCHANGED rasterizer
       /\ op' = [name |-> name, t |-> t, base |-> base, size |-> size, target |-> target]
       /\ ret' = 0
       /\ IF aligned
          THEN /\ attributes' = [attributes EXCEPT ![t] = r.attributes]
               /\ pointers' = [pointers EXCEPT ![t] = r.pointers]
               /\ aborted' = r.aborted
               /\ trace' = r.trace
          ELSE /\ aborted' = TRUE
               /\ trace' = <<>>
               /\ UNCHANGED <<attributes, pointers>>
       /\ UNCHANGED <<cache_marker, page_table_list, current_page_table, mem, marked>>

MapMemoryRegion(t, base, size, target) ==
    /\ MapCall("MapMemoryRegion", t, base, size, target, Memory)
    /\ pre' = [set |-> TRUE,
               attributes |-> Outside(attributes, t, base \div PAGE_SIZE, size \div PAGE_SIZE,
                                      Unmapped),
               pointers |-> Outside(pointers, t, base \div PAGE_SIZE, size \div PAGE_SIZE,
                                    NULL)]

UnmapRegion(t, base, size) ==
    /\ MapCall("UnmapRegion", t, base, size, NULL, Unmapped)
    /\ pre' = IF op.name = "MapMemoryRegion" /\ op.t = t /\ op.base = base /\ op.size = size
              THEN pre ELSE NoPre

\* the kernel registers the table of a process once, when the process is created
Registered(t) == \E i \in 1 .. Len(page_table_list) : page_table_list[i] = t

RegisterPageTable(t) ==
    /\ CanCall /\ UNCHANGED rasterizer
    /\ ~Registered(t)
    /\ page_table_list' = Append(page_table_list, t)
    /\ op' = [name |-> "RegisterPageTable", t |-> t]
    /\ trace' = <<>> /\ ret' = 0 /\ pre' = NoPre
    /\ UNCHANGED <<attributes, pointers, cache_marker, current_page_table, mem, aborted, marked>>

\* the index std::find returns: the first position of t, or Len + 1 for end()
Find(list, t) ==
    IF \E i \in 1 .. Len(list) : list[i] = t
    THEN CHOOSE i \in 1 .. Len(list) : list[i] = t /\ \A j \in 1 .. (i - 1) : list[j] # t
    ELSE Len(list) + 1
Erase(list, i) == [j \in 1 .. (Len(list) - 1) |-> IF j < i THEN list[j] ELSE list[j + 1]]

\* erase(end()) is undefined: the build may crash, leave the list alone or drop its last
UnregisterPageTable(t) ==
    LET i == Find(page_table_list, t) IN
    /\ CanCall /\ UNCHANGED rasterizer
    /\ IF i <= Len(page_table_list)
       THEN /\ page_table_list' = Erase(page_table_list, i)
            /\ aborted' = FALSE
       ELSE \/ aborted' = TRUE /\ page_table_list' = page_table_list
            \/ aborted' = FALSE /\ page_table_list' = page_table_list
            \/ /\ aborted' = FALSE /\ Len(page_table_list) > 0
               /\ page_table_list' = Erase(page_table_list, Len(page_table_list))
    /\ op' = [name |-> "UnregisterPageTable", t |-> t]
    /\ trace' = <<>> /\ ret' = 0 /\ pre' = NoPre
    /\ UNCHANGED <<attributes, pointers, cache_marker, current_page_table, mem, marked>>

\* the physical pages of VRAM and FCRAM, which the rasterizer can cache
CacheablePages ==
    {a \div PAGE_SIZE : a \in (VRAM_PADDR .. (VRAM_PADDR_END - 1))
                              \cup (FCRAM_PADDR .. (FCRAM_N3DS_PADDR_END - 1))}
\* the physical pages the loop of RasterizerMarkRegionCached visits
MarkedPages(start, size) ==
    IF start = 0 THEN {}
    ELSE {U32(start + i * PAGE_SIZE) \div PAGE_SIZE : i \in 0 .. (NumPages(start, size) - 1)}

RasterizerMarkRegionCached(start, size, cached) ==
    LET st == MarkRegionCached([attributes |-> attributes, pointers |-> pointers,
                                cache_marker |-> cache_marker, aborted |-> FALSE],
                               page_table_list, start, size, cached)
    IN /\ CanCall /\ UNCHANGED rasterizer
       /\ attributes' = st.attributes
       /\ pointers' = st.pointers
       /\ cache_marker' = st.cache_marker
       /\ aborted' = st.aborted
       /\ op' = [name |-> "RasterizerMarkRegionCached", start |-> start, size |-> size,
                 cached |-> cached]
       /\ trace' = <<>> /\ ret' = 0
       /\ marked' = IF st.aborted THEN marked
                    ELSE IF cached THEN marked \cup (MarkedPages(start, size) \cap CacheablePages)
                    ELSE marked \ MarkedPages(start, size)
       /\ pre' = IF cached
                 THEN [set |-> TRUE, attributes |-> attributes, pointers |-> pointers]
                 ELSE IF op.name = "RasterizerMarkRegionCached" /\ op.cached
                         /\ op.start = start /\ op.size = size
                 THEN pre ELSE NoPre
       /\ UNCHANGED <<page_table_list, current_page_table, mem>>

Next ==
    \/ \E c \in MapCalls : MapMemoryRegion(c[1], c[2], c[3], c[4])
    \/ \E c \in UnmapCalls : UnmapRegion(c[1], c[2], c[3])
    \/ \E t \in Tables : RegisterPageTable(t)
    \/ \E t \in Tables : UnregisterPageTable(t)
    \/ \E c \in MarkCalls, cached \in BOOLEAN :
          RasterizerMarkRegionCached(c[1], c[2], cached)

Spec == Init /\ [][Next]_vars

(***************************************************************************)
(* Typed accesses of the CPU: they need a current page table               *)
(***************************************************************************)
TypedRead(name, w, vaddr) ==
    LET r == Read(w, vaddr) IN
    /\ CanCall /\ UNCHANGED rasterizer /\ current_page_table # NoTable
    /\ op' = [name |-> name, w |-> w, vaddr |-> vaddr]
    /\ ret' = r.ret /\ trace' = r.trace /\ aborted' = r.aborted
    /\ pre' = NoPre
    /\ UNCHANGED <<attributes, pointers, cache_marker, page_table_list, current_page_table,
                   mem, marked>>

Read8(addr) == TypedRead("Read8", 1, addr)
Read16(addr) == TypedRead("Read16", 2, addr)
Read32(addr) == TypedRead("Read32", 4, addr)
Read64(addr) == TypedRead("Read64", 8, addr)

TypedWrite(name, w, vaddr, data) ==
    LET r == Write(w, vaddr, data) IN
    /\ CanCall /\ UNCHANGED rasterizer /\ current_page_table # NoTable
    /\ op' = [name |-> name, w |-> w, vaddr |-> vaddr, data |-> data]
    /\ mem' = r.mem /\ trace' = r.trace /\ aborted' = r.aborted
    /\ ret' = 0 /\ pre' = NoPre
    /\ UNCHANGED <<attributes, pointers, cache_marker, page_table_list, current_page_table,
                   marked>>

Write8(addr, data) == TypedWrite("Write8", 1, addr, data)
Write16(addr, data) == TypedWrite("Write16", 2, addr, data)
Write32(addr, data) == TypedWrite("Write32", 4, addr, data)
Write64(addr, data) == TypedWrite("Write64", 8, addr, data)

(***************************************************************************)
(* Block operations                                                        *)
(***************************************************************************)
ReadBlock(process, src_addr, size) ==
    LET r == ReadBlockLoop(mem, process, src_addr \div PAGE_SIZE, src_addr % PAGE_SIZE, size)
    IN /\ CanCall /\ UNCHANGED rasterizer
       /\ op' = [name |-> "ReadBlock", process |-> process, addr |-> src_addr, size |-> size]
       /\ ret' = r.buf /\ trace' = r.trace
       /\ pre' = NoPre
       /\ UNCHANGED <<attributes, pointers, cache_marker, page_table_list,
                      current_page_table, mem, aborted, marked>>

WriteBlock(process, dest_addr, src_buffer, size) ==
    LET r == WriteBlockLoop(mem, process, dest_addr \div PAGE_SIZE, dest_addr % PAGE_SIZE,
                            src_buffer, size)
    IN /\ CanCall /\ UNCHANGED rasterizer
       /\ op' = [name |-> "WriteBlock", process |-> process, addr |-> dest_addr,
                 size |-> size, src |-> src_buffer]
       /\ mem' = r.mem /\ trace' = r.trace
       /\ ret' = 0 /\ pre' = NoPre
       /\ UNCHANGED <<attributes, pointers, cache_marker, page_table_list,
                      current_page_table, aborted, marked>>

ZeroBlock(process, dest_addr, size) ==
    LET r == ZeroBlockLoop(mem, process, dest_addr \div PAGE_SIZE, dest_addr % PAGE_SIZE, size)
    IN /\ CanCall /\ UNCHANGED rasterizer
       /\ op' = [name |-> "ZeroBlock", process |-> process, addr |-> dest_addr, size |-> size]
       /\ mem' = r.mem /\ trace' = r.trace
       /\ ret' = 0 /\ pre' = NoPre
       /\ UNCHANGED <<attributes, pointers, cache_marker, page_table_list,
                      current_page_table, aborted, marked>>

CopyBlock(dest_process, src_process, dest_addr, src_addr, size) ==
    LET r == CopyBlockLoop(mem, dest_process, src_process, dest_addr, src_addr \div PAGE_SIZE,
                           src_addr % PAGE_SIZE, size)
    IN /\ CanCall /\ UNCHANGED rasterizer
       /\ op' = [name |-> "CopyBlock", process |-> dest_process, src_process |-> src_process,
                 addr |-> dest_addr, src_addr |-> src_addr, size |-> size]
       /\ mem' = r.mem /\ trace' = r.trace
       /\ ret' = 0 /\ pre' = NoPre
       /\ UNCHANGED <<attributes, pointers, cache_marker, page_table_list,
                      current_page_table, aborted, marked>>

(***************************************************************************)
(* The CPU of process A reading and writing its VRAM page                  *)
(***************************************************************************)
\* Typed accesses: one per width, the 8- and 16-bit ones unaligned, none crossing
\* the page; the values written differ in every byte (0x11, 0x2221, 0x34333231,
\* 0x44434241).  One ReadBlock that starts in the page below, which A never maps.
NextAccess ==
    \/ SetCurrentPageTable("A")
    \/ RegisterPageTable("A")
    \/ MapMemoryRegion("A", VRAM_VADDR, PAGE_SIZE, <<"vram", 0>>)
    \/ UnmapRegion("A", VRAM_VADDR, PAGE_SIZE)
    \/ \E cached \in BOOLEAN : RasterizerMarkRegionCached(VRAM_PADDR, PAGE_SIZE, cached)
    \/ Read8(VRAM_VADDR + 1)
    \/ Read16(VRAM_VADDR + 1)
    \/ Read32(VRAM_VADDR)
    \/ Read64(VRAM_VADDR)
    \/ Write8(VRAM_VADDR + 1, 17)
    \/ Write16(VRAM_VADDR + 1, 8737)
    \/ Write32(VRAM_VADDR, 875770417)
    \/ Write64(VRAM_VADDR, 1145258561)
    \/ ReadBlock("A", VRAM_VADDR - 1, PAGE_SIZE)

SpecAccess == Init /\ [][NextAccess]_vars

(***************************************************************************)
(* Block transfers between process A (VRAM) and process B (new linear heap) *)
(***************************************************************************)
\* the caller's source buffer: n bytes, all different and none zero
Bytes(n) == [k \in 1 .. n |-> k]
\* every transfer starts EdgeBytes bytes before the end of a page
EdgeBytes == 2

NextBlock ==
    \/ SetCurrentPageTable("A")
    \/ RegisterPageTable("B")
    \/ MapMemoryRegion("A", VRAM_VADDR, PAGE_SIZE, <<"vram", 0>>)
    \/ MapMemoryRegion("B", NEW_LINEAR_HEAP_VADDR, 2 * PAGE_SIZE, <<"fcram", 0>>)
    \/ UnmapRegion("A", VRAM_VADDR, PAGE_SIZE)
    \/ UnmapRegion("B", NEW_LINEAR_HEAP_VADDR + PAGE_SIZE, PAGE_SIZE)
    \/ \E cached \in BOOLEAN : RasterizerMarkRegionCached(FCRAM_PADDR, PAGE_SIZE, cached)
    \/ WriteBlock("A", VRAM_VADDR_END - EdgeBytes, Bytes(2 * EdgeBytes), 2 * EdgeBytes)
    \/ WriteBlock("B", VRAM_VADDR_END - EdgeBytes, Bytes(PAGE_SIZE + 2 * EdgeBytes),
                  PAGE_SIZE + 2 * EdgeBytes)
    \/ ZeroBlock("B", NEW_LINEAR_HEAP_VADDR, 1)
    \/ CopyBlock("B", "A", NEW_LINEAR_HEAP_VADDR + PAGE_SIZE - EdgeBytes, VRAM_VADDR_END - EdgeBytes,
                 2 * EdgeBytes)
    \/ ReadBlock("A", VRAM_VADDR_END - EdgeBytes, 2 * EdgeBytes)
    \/ ReadBlock("B", NEW_LINEAR_HEAP_VADDR + PAGE_SIZE - EdgeBytes, 2 * EdgeBytes)

SpecBlock == Init /\ [][NextBlock]_vars

(***************************************************************************)
(* Process A with both linear-heap windows mapped                          *)
(***************************************************************************)
\* 8-bit accesses at the same offset of the two windows; the linear heap is mapped
\* onto FCRAM or onto the caller's memory, the new linear heap onto FCRAM
NextAlias ==
    \/ SetCurrentPageTable("A")
    \/ RegisterPageTable("A")
    \/ MapMemoryRegion("A", LINEAR_HEAP_VADDR, PAGE_SIZE, <<"fcram", 0>>)
    \/ MapMemoryRegion("A", LINEAR_HEAP_VADDR, PAGE_SIZE, <<"host", 0>>)
    \/ MapMemoryRegion("A", NEW_LINEAR_HEAP_VADDR, PAGE_SIZE, <<"fcram", 0>>)
    \/ \E cached \in BOOLEAN : RasterizerMarkRegionCached(FCRAM_PADDR, PAGE_SIZE, cached)
    \/ Write8(LINEAR_HEAP_VADDR + 1, 17)
    \/ Write8(NEW_LINEAR_HEAP_VADDR + 1, 34)
    \/ Read8(LINEAR_HEAP_VADDR + 1)
    \/ Read8(NEW_LINEAR_HEAP_VADDR + 1)

SpecAlias == Init /\ [][NextAlias]_vars

(***************************************************************************)
(* The address map: translations and the flush dispatcher on their own     *)
(***************************************************************************)
\* the host pointer of a physical address, NULL when no window holds it
GetPhysicalPointer(address) ==
    IF address >= VRAM_PADDR /\ address <= VRAM_PADDR_END
    THEN <<"vram", address - VRAM_PADDR>>
    ELSE IF address >= DSP_RAM_PADDR /\ address <= DSP_RAM_PADDR_END
    THEN <<"dsp", address - DSP_RAM_PADDR>>
    ELSE IF address >= FCRAM_PADDR /\ address <= FCRAM_N3DS_PADDR_END
    THEN <<"fcram", address - FCRAM_PADDR>>
    ELSE IF address >= N3DS_EXTRA_RAM_PADDR /\ address <= N3DS_EXTRA_RAM_PADDR_END
    THEN <<"n3ds_extra_ram", address - N3DS_EXTRA_RAM_PADDR>>
    ELSE NULL

IsValidPhysicalAddress(paddr) == GetPhysicalPointer(paddr) # NULL

\* every address of the address space, and the sizes and modes of the flush calls
Addresses == 0 .. (2 ^ AddrBits - 1)
FlushSizes == (0 .. (2 * PAGE_SIZE + 1)) \cup {2 ^ AddrBits - 2}
FlushModes == {Flush, Invalidate, FlushAndInvalidate}

\* the constructed state with the arguments of one call chosen
InitAddressMap ==
    /\ attributes = [t \in Tables |-> [pg \in Pages |-> Unmapped]]
    /\ pointers = [t \in Tables |-> [pg \in Pages |-> NULL]]
    /\ cache_marker = MarkerInit
    /\ page_table_list = <<>>
    /\ current_page_table = NoTable
    /\ mem = [b \in Buffers |-> [i \in 0 .. (BufSize(b) - 1) |-> 0]]
    /\ aborted = FALSE
    /\ \E addr \in Addresses : \E size \in FlushSizes : \E mode \in FlushModes :
          op = [name |-> "arguments", addr |-> addr, size |-> size, mode |-> mode]
    /\ trace = <<>>
    /\ ret = 0
    /\ marked = {}
    /\ pre = NoPre
    /\ rasterizer = Idle

\* a call that only computes: its result goes to ret, its rasterizer calls to trace
Query(r, tr) ==
    /\ CanCall /\ UNCHANGED rasterizer /\ op.name = "arguments"
    /\ ret' = r /\ trace' = tr
    /\ pre' = NoPre
    /\ UNCHANGED <<attributes, pointers, cache_marker, page_table_list, current_page_table,
                   mem, aborted, marked>>

PhysicalToVirtualQuery ==
    /\ Query(PhysicalToVirtualAddressForRasterizer(op.addr), <<>>)
    /\ op' = [name |-> "PhysicalToVirtualAddressForRasterizer", paddr |-> op.addr]

PhysicalPointerQuery ==
    /\ Query(GetPhysicalPointer(op.addr), <<>>)
    /\ op' = [name |-> "GetPhysicalPointer", paddr |-> op.addr]

PhysicalValidQuery ==
    /\ Query(IsValidPhysicalAddress(op.addr), <<>>)
    /\ op' = [name |-> "IsValidPhysicalAddress", paddr |-> op.addr]

FlushVirtualRegionCall ==
    /\ Query(0, RasterizerFlushVirtualRegion(op.addr, op.size, op.mode))
    /\ op' = [name |-> "RasterizerFlushVirtualRegion", start |-> op.addr, size |-> op.size,
              mode |-> op.mode]

\* PhysicalToVirtualAddressForRasterizer, and for each address it returns a
\* one-byte RasterizerFlushVirtualRegion and GetPointerForRasterizerCache, beside
\* GetPhysicalPointer of the physical address
TranslationRoundTrip ==
    LET vaddrs == PhysicalToVirtualAddressForRasterizer(op.addr) IN
    /\ Query([j \in 1 .. Len(vaddrs) |->
                 [vaddr |-> vaddrs[j],
                  calls |-> RasterizerFlushVirtualRegion(vaddrs[j], 1, op.mode),
                  pointer |-> GetPointerForRasterizerCache(vaddrs[j]),
                  physical |-> GetPhysicalPointer(op.addr)]],
             <<>>)
    /\ op' = [name |-> "TranslationRoundTrip", paddr |-> op.addr, mode |-> op.mode]

NextAddressMap ==
    \/ PhysicalToVirtualQuery
    \/ PhysicalPointerQuery
    \/ PhysicalValidQuery
    \/ FlushVirtualRegionCall
    \/ TranslationRoundTrip

SpecAddressMap == InitAddressMap /\ [][NextAddressMap]_vars

(***************************************************************************)
(* RasterizerMarkRegionCached on the rasterizer thread                     *)
(***************************************************************************)
\* The function takes no lock (lines 287-335), so between two of its steps the CPU
\* thread may run a whole call.  The rasterizer field holds the loop variables:
\* paddr and i of the outer loop, vaddrs and j of the alias loop, k of the loop over
\* page_table_list, which is read as it is at each step; list is page_table_list
\* at the time of the call.
MarkCursor(r) ==
    IF r.pc = "idle" \/ r.j <= Len(r.vaddrs) THEN r
    ELSE IF r.i + 1 < r.num_pages
    THEN [r EXCEPT !.i = r.i + 1, !.paddr = U32(r.paddr + PAGE_SIZE), !.j = 1, !.k = 0,
                   !.vaddrs = PhysicalToVirtualAddressForRasterizer(U32(r.paddr + PAGE_SIZE))]
    ELSE Idle

\* the call: lines 288-296, up to the first alias of the first page that has one
MarkEnter(start, size, cached) ==
    LET r == [pc |-> "mark", cached |-> cached, i |-> 0, num_pages |-> NumPages(start, size),
              paddr |-> start, vaddrs |-> PhysicalToVirtualAddressForRasterizer(start),
              j |-> 1, k |-> 0, list |-> page_table_list]
    IN /\ ~aborted /\ rasterizer = Idle
       /\ rasterizer' = IF start = 0 THEN Idle ELSE MarkCursor(MarkCursor(r))
       /\ op' = [name |-> "MarkEnter", start |-> start, size |-> size, cached |-> cached]
       /\ trace' = <<>> /\ ret' = 0 /\ pre' = NoPre
       /\ UNCHANGED <<attributes, pointers, cache_marker, page_table_list,
                      current_page_table, mem, aborted, marked>>

\* one step of the call: cache_marker.Mark (line 297) when k = 0, else the body of
\* the loop over the page tables (lines 298-331) for the k-th of them
MarkStep ==
    LET r == rasterizer
        vaddr == r.vaddrs[r.j]
        st == [attributes |-> attributes, pointers |-> pointers,
               cache_marker |-> cache_marker, aborted |-> aborted]
        st1 == IF r.k = 0 THEN [st EXCEPT !.cache_marker = Mark(@, vaddr, r.cached)]
               ELSE IF r.k <= Len(page_table_list)
               THEN MarkTable(st, page_table_list[r.k], vaddr, r.cached)
               ELSE st
        r1 == IF r.k < Len(page_table_list) THEN [r EXCEPT !.k = r.k + 1]
              ELSE [r EXCEPT !.j = r.j + 1, !.k = 0]
    IN /\ ~aborted /\ rasterizer # Idle
       /\ attributes' = st1.attributes
       /\ pointers' = st1.pointers
       /\ cache_marker' = st1.cache_marker
       /\ aborted' = st1.aborted
       /\ rasterizer' = MarkCursor(MarkCursor(r1))
       /\ op' = [name |-> "MarkStep"]
       /\ trace' = <<>> /\ ret' = 0 /\ pre' = NoPre
       /\ UNCHANGED <<page_table_list, current_page_table, mem, marked>>

NextThreads ==
    \/ RegisterPageTable("A")
    \/ RegisterPageTable("B")
    \/ UnregisterPageTable("A")
    \/ MapMemoryRegion("A", VRAM_VADDR, PAGE_SIZE, <<"vram", 0>>)
    \/ MapMemoryRegion("B", NEW_LINEAR_HEAP_VADDR, PAGE_SIZE, <<"fcram", 0>>)
    \/ UnmapRegion("A", VRAM_VADDR, PAGE_SIZE)
    \/ \E cached \in BOOLEAN : MarkEnter(VRAM_PADDR, PAGE_SIZE, cached)
    \/ MarkEnter(FCRAM_PADDR - 1, 2, TRUE)
    \/ MarkEnter(0, PAGE_SIZE, TRUE)
    \/ MarkStep

SpecThreads == Init /\ [][NextThreads]_vars

(***************************************************************************)
(* Mapping calls of size zero                                              *)
(***************************************************************************)
\* process B with the two pages of the new linear heap; size-zero calls at the
\* start of a window, inside a window and outside every window
NextZeroSize ==
    \/ RegisterPageTable("B")
    \/ MapMemoryRegion("B", NEW_LINEAR_HEAP_VADDR, 2 * PAGE_SIZE, <<"fcram", 0>>)
    \/ UnmapRegion("B", NEW_LINEAR_HEAP_VADDR, 2 * PAGE_SIZE)
    \/ \E cached \in BOOLEAN : RasterizerMarkRegionCached(FCRAM_PADDR, 2 * PAGE_SIZE, cached)
    \/ \E base \in {0, VRAM_VADDR, NEW_LINEAR_HEAP_VADDR, NEW_LINEAR_HEAP_VADDR + PAGE_SIZE} :
          \/ MapMemoryRegion("B", base, 0, <<"host", 0>>)
          \/ MapMemoryRegion("B", base, 0, NULL)
          \/ UnmapRegion("B", base, 0)

SpecZeroSize == Init /\ [][NextZeroSize]_vars

(***************************************************************************)
(* CopyBlock from the VRAM page of A into the new linear heap of B         *)
(***************************************************************************)
\* source and destination pages cached or not, independently; one copy whose
\* source chunk ends with the page, one whose source chunk straddles two pages of
\* the destination
NextCopy ==
    \/ RegisterPageTable("A")
    \/ RegisterPageTable("B")
    \/ MapMemoryRegion("A", VRAM_VADDR, PAGE_SIZE, <<"vram", 0>>)
    \/ MapMemoryRegion("B", NEW_LINEAR_HEAP_VADDR, 2 * PAGE_SIZE, <<"fcram", 0>>)
    \/ \E cached \in BOOLEAN : RasterizerMarkRegionCached(VRAM_PADDR, PAGE_SIZE, cached)
    \/ \E cached \in BOOLEAN : RasterizerMarkRegionCached(FCRAM_PADDR, PAGE_SIZE, cached)
    \/ \E cached \in BOOLEAN :
          RasterizerMarkRegionCached(FCRAM_PADDR, 2 * PAGE_SIZE, cached)
    \/ WriteBlock("A", VRAM_VADDR, Bytes(PAGE_SIZE), PAGE_SIZE)
    \/ CopyBlock("B", "A", NEW_LINEAR_HEAP_VADDR + PAGE_SIZE - EdgeBytes,
                 VRAM_VADDR_END - EdgeBytes, 2 * EdgeBytes)
    \/ CopyBlock("B", "A", NEW_LINEAR_HEAP_VADDR + PAGE_SIZE - 1, VRAM_VADDR + 1,
                 EdgeBytes + 1)

SpecCopy == Init /\ [][NextCopy]_vars

(***************************************************************************)
(* Properties                                                              *)
(***************************************************************************)
\* The address map as section 3 and 4.4 of the specification give it, stated on
\* its own: the physical address a cacheable virtual address is an alias of
\* (NoAddr outside the three windows), and the backing byte behind it.
NoAddr == 0 - 1
PhysicalOf(v) ==
    IF v >= VRAM_VADDR /\ v < VRAM_VADDR_END THEN VRAM_PADDR + (v - VRAM_VADDR)
    ELSE IF v >= LINEAR_HEAP_VADDR /\ v < LINEAR_HEAP_VADDR_END
    THEN FCRAM_PADDR + (v - LINEAR_HEAP_VADDR)
    ELSE IF v >= NEW_LINEAR_HEAP_VADDR /\ v < NEW_LINEAR_HEAP_VADDR_END
    THEN FCRAM_PADDR + (v - NEW_LINEAR_HEAP_VADDR)
    ELSE NoAddr
BackingOf(v) ==
    IF v >= VRAM_VADDR /\ v < VRAM_VADDR_END THEN <<"vram", v - VRAM_VADDR>>
    ELSE IF PhysicalOf(v) # NoAddr THEN <<"fcram", PhysicalOf(v) - FCRAM_PADDR>>
    ELSE NULL
\* the virtual pages that are aliases of physical page pp
AliasPages(pp) == {pg \in Pages : PhysicalOf(pg * PAGE_SIZE) = pp * PAGE_SIZE}
\* the physical pages that intersect [start, start + size)
PagesOfRange(start, size) == {a \div PAGE_SIZE : a \in start .. (start + size - 1)}
\* the pages of the range a Map / Unmap call names
OpPages == {pg \in Pages : pg * PAGE_SIZE >= op.base /\ pg * PAGE_SIZE < op.base + op.size}
IsMap == op.name = "MapMemoryRegion"
IsUnmap == op.name = "UnmapRegion"
IsMark == op.name = "RasterizerMarkRegionCached"

\* C1: in every reachable state, every page-table entry with attribute Memory has
\* a non-null pointer (invariant P1), MapMemoryRegion with a null host pointer
\* included.
C1_P1 ==
    \A t \in Tables, pg \in Pages :
        attributes[t][pg] = Memory => pointers[t][pg] # NULL

\* C2: in every reachable state, every page-table entry whose attribute is
\* RasterizerCachedMemory or Unmapped has a null pointer (invariants P2 and P3).
C2_P2P3 ==
    \A t \in Tables, pg \in Pages :
        attributes[t][pg] \in {RasterizerCachedMemory, Unmapped} => pointers[t][pg] = NULL
\* a mark has just turned an entry that held a pointer into a cached one
C2_Witness ==
    /\ IsMark /\ op.cached /\ ~aborted
    /\ \E t \in Tables, pg \in Pages :
          /\ attributes[t][pg] = RasterizerCachedMemory
          /\ pre.attributes[t][pg] = Memory /\ pre.pointers[t][pg] # NULL

\* The state after RasterizerMarkRegionCached(p, PAGE_SIZE, true) followed at once by
\* RasterizerMarkRegionCached(p, PAGE_SIZE, false); pre holds the page tables as they
\* were before the first of the two calls.
RoundTripDone ==
    IsMark /\ ~op.cached /\ op.size = PAGE_SIZE /\ pre.set /\ ~aborted
\* the entries the round trip is about: of a registered table, Memory with a
\* pointer before the two calls, at an alias of the marked page
RoundTripEntries ==
    {e \in Tables \X AliasPages(op.start \div PAGE_SIZE) :
        /\ Registered(e[1])
        /\ pre.attributes[e[1]][e[2]] = Memory
        /\ pre.pointers[e[1]][e[2]] # NULL}

\* C3 as stated: the round trip leaves the entry with the attribute and the host
\* pointer it had before the two calls.
C3_Original ==
    RoundTripDone =>
        \A e \in RoundTripEntries :
            /\ attributes[e[1]][e[2]] = Memory
            /\ pointers[e[1]][e[2]] = pre.pointers[e[1]][e[2]]
\* C3 amended: the round trip leaves the entry with attribute Memory and the pointer
\* into the window's own backing store at the page's offset, which is the pointer it
\* had before exactly when the page had been mapped onto that backing store.
C3_RoundTrip ==
    RoundTripDone =>
        \A e \in RoundTripEntries :
            /\ attributes[e[1]][e[2]] = Memory
            /\ pointers[e[1]][e[2]] = BackingOf(e[2] * PAGE_SIZE)
            /\ (pointers[e[1]][e[2]] = pre.pointers[e[1]][e[2]]
                   <=> pre.pointers[e[1]][e[2]] = BackingOf(e[2] * PAGE_SIZE))
\* a round trip over a page mapped onto its backing store, in a registered table
C3_Witness ==
    /\ RoundTripDone
    /\ \E e \in RoundTripEntries :
          /\ pre.pointers[e[1]][e[2]] = BackingOf(e[2] * PAGE_SIZE)
          /\ pointers[e[1]][e[2]] = pre.pointers[e[1]][e[2]]

\* C4: after RasterizerMarkRegionCached(paddr, size, true) returns, for every page
\* of the physical range, every virtual alias of it and every registered table, an
\* entry that was Memory is RasterizerCachedMemory with a null pointer and one that
\* was Unmapped is still Unmapped.
C4_FanOut ==
    (IsMark /\ op.cached /\ op.start # 0 /\ ~aborted) =>
        \A pp \in PagesOfRange(op.start, op.size) : \A pg \in AliasPages(pp) :
            \A t \in Tables : Registered(t) =>
                /\ pre.attributes[t][pg] = Memory =>
                      (attributes[t][pg] = RasterizerCachedMemory /\ pointers[t][pg] = NULL)
                /\ pre.attributes[t][pg] = Unmapped => attributes[t][pg] = Unmapped
\* T1 = A maps only the linear-heap alias, T2 = B only the new-linear-heap alias,
\* and one call has updated both
C4_Witness ==
    /\ IsMark /\ op.cached /\ op.start = FCRAM_PADDR /\ ~aborted
    /\ Registered("A") /\ Registered("B")
    /\ pre.attributes["A"][LINEAR_HEAP_VADDR \div PAGE_SIZE] = Memory
    /\ pre.attributes["A"][NEW_LINEAR_HEAP_VADDR \div PAGE_SIZE] = Unmapped
    /\ pre.attributes["B"][NEW_LINEAR_HEAP_VADDR \div PAGE_SIZE] = Memory
    /\ pre.attributes["B"][LINEAR_HEAP_VADDR \div PAGE_SIZE] = Unmapped
    /\ attributes["A"][LINEAR_HEAP_VADDR \div PAGE_SIZE] = RasterizerCachedMemory
    /\ attributes["B"][NEW_LINEAR_HEAP_VADDR \div PAGE_SIZE] = RasterizerCachedMemory

\* C5: when a physical page has been marked cached and not unmarked since,
\* MapMemoryRegion of any table, registered or not, over a virtual alias of it leaves
\* the entry RasterizerCachedMemory with a null pointer, whatever the host pointer.
C5_LateMap ==
    (IsMap /\ ~aborted) =>
        \A pp \in marked : \A pg \in AliasPages(pp) \cap OpPages :
            /\ attributes[op.t][pg] = RasterizerCachedMemory
            /\ pointers[op.t][pg] = NULL
\* a table that is not registered has just been mapped, with a host pointer, over a
\* marked page
C5_Witness ==
    /\ IsMap /\ ~aborted /\ op.target # NULL /\ ~Registered(op.t)
    /\ \E pp \in marked : \E pg \in AliasPages(pp) \cap OpPages :
          attributes[op.t][pg] = RasterizerCachedMemory

\* C7: MapMemoryRegion(table, R, p) followed by UnmapRegion(table, R) leaves every
\* entry of R Unmapped with a null pointer and changes no entry outside R (pre holds
\* the entries outside R as they were before the MapMemoryRegion).
C7_MapUnmap ==
    (IsUnmap /\ pre.set /\ ~aborted) =>
        /\ \A pg \in OpPages :
              attributes[op.t][pg] = Unmapped /\ pointers[op.t][pg] = NULL
        /\ \A t \in Tables, pg \in Pages : (t # op.t \/ pg \notin OpPages) =>
              /\ attributes[t][pg] = pre.attributes[t][pg]
              /\ pointers[t][pg] = pre.pointers[t][pg]
\* a two-page range holding a marked page has been mapped and unmapped
C7_Witness ==
    /\ IsUnmap /\ pre.set /\ ~aborted
    /\ Cardinality(OpPages) = 2
    /\ \E pg \in OpPages : IsCached(cache_marker, pg * PAGE_SIZE)

\* the names op takes for Read<T> and Write<T>
TypedReads == {"Read8", "Read16", "Read32", "Read64"}
TypedWrites == {"Write8", "Write16", "Write32", "Write64"}
IsRasterizerCall(e) == e[1] \in {Flush, Invalidate, FlushAndInvalidate}
RasterizerCalls(tr) == SelectSeq(tr, IsRasterizerCall)
Range(sq) == {sq[i] : i \in 1 .. Len(sq)}
\* the attribute of the page of guest address v in table t
TypeAt(t, v) == attributes[t][v \div PAGE_SIZE]
\* the host byte <<buffer, offset>> behind guest address v of a mapped page of table t
HostByte(t, v) ==
    IF TypeAt(t, v) = Memory THEN PtrAdd(pointers[t][v \div PAGE_SIZE], v % PAGE_SIZE)
    ELSE BackingOf(v)
GuestByte(m, t, v) == m[HostByte(t, v)[1]][HostByte(t, v)[2]]
\* the guest addresses [addr, addr + size) and the pages they touch
Span(addr, size) == addr .. (addr + size - 1)
SpanPages(addr, size) == {v \div PAGE_SIZE : v \in Span(addr, size)}
\* the part of [addr, addr + size) that lies in page pg: <<first address, length>>
SubRange(addr, size, pg) ==
    <<Max(addr, pg * PAGE_SIZE),
      Min(addr + size, (pg + 1) * PAGE_SIZE) - Max(addr, pg * PAGE_SIZE)>>

C8_UnmappedSafety ==
    [][/\ (op'.name \in TypedReads \cup TypedWrites
             /\ TypeAt(current_page_table, op'.vaddr) = Unmapped) =>
            /\ ret' = 0 /\ trace' = <<>> /\ ~aborted'
            /\ mem' = mem /\ attributes' = attributes /\ pointers' = pointers
       /\ op'.name = "ReadBlock" =>
            /\ \A k \in 0 .. (op'.size - 1) :
                  TypeAt(op'.process, op'.addr + k) = Unmapped => ret'[k + 1] = 0
            /\ Len(ret') = op'.size
            /\ Len(RasterizerCalls(trace')) =
                 Cardinality({pg \in SpanPages(op'.addr, op'.size) :
                                 attributes[op'.process][pg] = RasterizerCachedMemory})
            /\ ~aborted'
            /\ mem' = mem /\ attributes' = attributes /\ pointers' = pointers
      ]_vars
\* the VRAM page holds data written through it, has been unmapped since, and a
\* read of it has returned 0
C8_Witness ==
    /\ op.name = "Read32" /\ ~aborted /\ ret = 0 /\ trace = <<>>
    /\ TypeAt(current_page_table, op.vaddr) = Unmapped
    /\ mem["vram"][op.vaddr - VRAM_VADDR] # 0

\* C9: WriteBlock(process, v, src, N) with (v & PAGE_MASK) + N > PAGE_SIZE stores
\* src[k] at guest address v + k for every k whose page is Memory or
\* RasterizerCachedMemory, drops the bytes of Unmapped pages without shifting the
\* later ones, writes nothing else, and makes one Invalidate call per cached page,
\* over exactly the sub-range written in it.
C9_WriteBlockStraddle ==
    [][(op'.name = "WriteBlock" /\ (op'.addr % PAGE_SIZE) + op'.size > PAGE_SIZE) =>
         LET t == op'.process
             mapped == {v \in Span(op'.addr, op'.size) : TypeAt(t, v) # Unmapped}
             cached == {pg \in SpanPages(op'.addr, op'.size) :
                           attributes[t][pg] = RasterizerCachedMemory}
         IN /\ \A v \in mapped : GuestByte(mem', t, v) = op'.src[v - op'.addr + 1]
            /\ \A b \in Buffers : \A i \in DOMAIN mem[b] :
                  (\A v \in mapped : HostByte(t, v) # <<b, i>>) => mem'[b][i] = mem[b][i]
            /\ Range(RasterizerCalls(trace')) =
                 {<<Invalidate, "paddr", PhysicalOf(SubRange(op'.addr, op'.size, pg)[1]),
                    SubRange(op'.addr, op'.size, pg)[2]>> : pg \in cached}
            /\ Len(RasterizerCalls(trace')) = Cardinality(cached)
            /\ attributes' = attributes /\ pointers' = pointers /\ ~aborted'
      ]_vars
\* one WriteBlock has run over an Unmapped page, a cached page and a Memory page
C9_Witness ==
    /\ op.name = "WriteBlock" /\ op.process = "B"
    /\ TypeAt("B", op.addr) = Unmapped
    /\ TypeAt("B", NEW_LINEAR_HEAP_VADDR) = RasterizerCachedMemory
    /\ TypeAt("B", NEW_LINEAR_HEAP_VADDR + PAGE_SIZE) = Memory
    /\ mem["fcram"][0] = op.src[NEW_LINEAR_HEAP_VADDR - op.addr + 1]
    /\ mem["fcram"][PAGE_SIZE] = op.src[NEW_LINEAR_HEAP_VADDR + PAGE_SIZE - op.addr + 1]
    /\ Len(RasterizerCalls(trace)) = 1

\* C10: CopyBlock(dst_process, src_process, dst_vaddr, src_vaddr, size) works on the
\* page tables of the two processes, whatever the current page table: afterwards, for
\* every k whose destination page is mapped, the byte at dst_vaddr + k is the source
\* byte at src_vaddr + k when the source page is mapped and 0 when it is Unmapped;
\* and a ReadBlock of dst_process at dst_vaddr that follows returns those bytes.
C10_CopyBlock ==
    [][/\ op'.name = "CopyBlock" =>
            \A k \in 0 .. (op'.size - 1) :
                attributes'[op'.process][(op'.addr + k) \div PAGE_SIZE] # Unmapped =>
                    GuestByte(mem', op'.process, op'.addr + k) =
                        IF TypeAt(op'.src_process, op'.src_addr + k) # Unmapped
                        THEN GuestByte(mem', op'.src_process, op'.src_addr + k)
                        ELSE 0
       /\ (op.name = "CopyBlock" /\ op'.name = "ReadBlock" /\ op'.process = op.process
             /\ op'.addr = op.addr /\ op'.size = op.size) =>
            \A k \in 0 .. (op.size - 1) :
                TypeAt(op.process, op.addr + k) # Unmapped =>
                    ret'[k + 1] =
                        IF TypeAt(op.src_process, op.src_addr + k) # Unmapped
                        THEN GuestByte(mem, op.src_process, op.src_addr + k)
                        ELSE 0
      ]_vars
\* B reads back bytes that were written into A, with A as (or without) the current
\* table, followed by the zeros of the page A does not map
C10_Witness ==
    /\ op.name = "ReadBlock" /\ op.process = "B"
    /\ \A v \in Span(op.addr, op.size) : TypeAt("B", v) # Unmapped
    /\ TypeAt("A", VRAM_VADDR) # Unmapped
    /\ ret[1] = 1 /\ ret[op.size] = 0
    /\ mem["vram"][VRAM_SIZE - 1] # 0

\* byte k (0 = least significant) of the value x
RECURSIVE ByteOf(_, _)
ByteOf(x, k) == IF k = 0 THEN x % 256 ELSE ByteOf(x \div 256, k - 1)
\* the entry of v in the current table is on the fast path
FastPath(v) ==
    /\ TypeAt(current_page_table, v) = Memory
    /\ pointers[current_page_table][v \div PAGE_SIZE] # NULL

\* C11: for an address v in a page of the current table that is Memory with a
\* non-null pointer, Write<T>(v, x) stores the little-endian bytes of x at
\* pointer + (v & PAGE_MASK), changes no other byte and calls no rasterizer, every
\* Read<T>(v) returns the value of the bytes there, and a Read<T>(v) that follows
\* the Write<T>(v, x) returns x.
C11_ReadYourWrites ==
    [][/\ (op'.name \in TypedWrites /\ FastPath(op'.vaddr)) =>
            LET p == HostByte(current_page_table, op'.vaddr) IN
            /\ \A k \in 0 .. (op'.w - 1) : mem'[p[1]][p[2] + k] = ByteOf(op'.data, k)
            /\ \A b \in Buffers : \A i \in DOMAIN mem[b] :
                  ~(b = p[1] /\ i >= p[2] /\ i < p[2] + op'.w) => mem'[b][i] = mem[b][i]
            /\ RasterizerCalls(trace') = <<>> /\ ~aborted'
       /\ (op'.name \in TypedReads /\ FastPath(op'.vaddr)) =>
            LET p == HostByte(current_page_table, op'.vaddr) IN
            /\ \A k \in 0 .. (op'.w - 1) : ByteOf(ret', k) = mem[p[1]][p[2] + k]
            /\ RasterizerCalls(trace') = <<>> /\ ~aborted'
       /\ (op.name \in TypedWrites /\ op'.name \in TypedReads /\ op'.vaddr = op.vaddr
             /\ op'.w = op.w /\ FastPath(op.vaddr)) => ret' = op.data
      ]_vars
\* an unaligned 16-bit value written on the fast path has been read back
C11_Witness ==
    /\ op.name = "Read16" /\ FastPath(op.vaddr) /\ op.vaddr % PAGE_SIZE # 0
    /\ ret = 8737
    /\ trace = <<<<"load", "vram", op.vaddr - VRAM_VADDR, 2>>>>

\* the address of the other linear-heap window with the same FCRAM offset as v
OtherAlias(v) ==
    IF v >= LINEAR_HEAP_VADDR /\ v < LINEAR_HEAP_VADDR_END
    THEN v - LINEAR_HEAP_VADDR + NEW_LINEAR_HEAP_VADDR
    ELSE v - NEW_LINEAR_HEAP_VADDR + LINEAR_HEAP_VADDR
\* the entry of v in table t is RasterizerCachedMemory, or Memory on the window's own
\* backing store
OnBacking(t, v) ==
    \/ TypeAt(t, v) = RasterizerCachedMemory
    \/ /\ TypeAt(t, v) = Memory
       /\ pointers[t][v \div PAGE_SIZE] = BackingOf(v - (v % PAGE_SIZE))

\* C12: for an offset k of the FCRAM range shared by the two linear-heap windows,
\* a byte written at LINEAR_HEAP_VADDR + k is the byte read at
\* NEW_LINEAR_HEAP_VADDR + k and the reverse, when the two alias pages are
\* RasterizerCachedMemory and when RasterizerMarkRegionCached(..., false) has
\* returned them to Memory (which leaves them on the FCRAM backing store).
C12_AliasCoherence ==
    [][/\ (op'.name = "RasterizerMarkRegionCached" /\ ~op'.cached /\ ~aborted') =>
            \A t \in Tables : \A pp \in PagesOfRange(op'.start, op'.size) :
                \A pg \in AliasPages(pp) :
                    (Registered(t) /\ attributes[t][pg] = RasterizerCachedMemory) =>
                        /\ attributes'[t][pg] = Memory
                        /\ pointers'[t][pg] = BackingOf(pg * PAGE_SIZE)
       /\ (op'.name \in TypedWrites /\ OnBacking(current_page_table, op'.vaddr)
             /\ OnBacking(current_page_table, OtherAlias(op'.vaddr))) =>
            \A k \in 0 .. (op'.w - 1) :
                /\ GuestByte(mem', current_page_table, OtherAlias(op'.vaddr) + k)
                     = ByteOf(op'.data, k)
                /\ GuestByte(mem', current_page_table, op'.vaddr + k) = ByteOf(op'.data, k)
       /\ (op'.name \in TypedReads /\ OnBacking(current_page_table, op'.vaddr)
             /\ OnBacking(current_page_table, OtherAlias(op'.vaddr))) =>
            \A k \in 0 .. (op'.w - 1) :
                ByteOf(ret', k) = GuestByte(mem, current_page_table, OtherAlias(op'.vaddr) + k)
       /\ (op.name \in TypedWrites /\ op'.name \in TypedReads /\ op'.w = op.w
             /\ op'.vaddr = OtherAlias(op.vaddr)
             /\ OnBacking(current_page_table, op.vaddr)
             /\ OnBacking(current_page_table, op'.vaddr)) => ret' = op.data
      ]_vars
\* the byte written through the linear heap has been read through the new linear
\* heap, both pages being cached
C12_Witness ==
    /\ op.name = "Read8" /\ op.vaddr = NEW_LINEAR_HEAP_VADDR + 1 /\ ret = 17
    /\ TypeAt(current_page_table, op.vaddr) = RasterizerCachedMemory
    /\ TypeAt(current_page_table, OtherAlias(op.vaddr)) = RasterizerCachedMemory
\* the byte written through the new linear heap has been read through the linear
\* heap, which was mapped onto the caller's memory before the mark and the unmark
C12_WitnessUnmarked ==
    /\ op.name = "Read8" /\ op.vaddr = LINEAR_HEAP_VADDR + 1 /\ ret = 34
    /\ TypeAt(current_page_table, op.vaddr) = Memory
    /\ TypeAt(current_page_table, OtherAlias(op.vaddr)) = Memory
    /\ ~IsCached(cache_marker, op.vaddr)
    /\ mem["host"][1] = 17

\* C13: PhysicalToVirtualAddressForRasterizer(paddr) returns exactly one address
\* for a paddr of the VRAM window, exactly two for a paddr of FCRAM below the
\* legacy end (the linear-heap alias first, the new-linear-heap alias second),
\* exactly the new-linear-heap alias for the enhanced-only FCRAM tail, and the
\* empty list for every other paddr.
C13_PhysicalToVirtual ==
    op.name = "PhysicalToVirtualAddressForRasterizer" =>
        LET p == op.paddr
            inVram == p \in VRAM_PADDR .. (VRAM_PADDR + VRAM_SIZE - 1)
            inLegacy == p \in FCRAM_PADDR .. (FCRAM_PADDR + FCRAM_SIZE - 1)
            inTail == p \in (FCRAM_PADDR + FCRAM_SIZE) .. (FCRAM_PADDR + FCRAM_N3DS_SIZE - 1)
        IN /\ inVram => ret = <<VRAM_VADDR + (p - VRAM_PADDR)>>
           /\ inLegacy => /\ Len(ret) = 2
                          /\ ret[1] = LINEAR_HEAP_VADDR + (p - FCRAM_PADDR)
                          /\ ret[2] = NEW_LINEAR_HEAP_VADDR + (p - FCRAM_PADDR)
           /\ inTail => ret = <<NEW_LINEAR_HEAP_VADDR + (p - FCRAM_PADDR)>>
           /\ ~(inVram \/ inLegacy \/ inTail) => ret = <<>>
\* a legacy FCRAM address has been translated to its two aliases
C13_Witness ==
    /\ op.name = "PhysicalToVirtualAddressForRasterizer"
    /\ op.paddr = FCRAM_PADDR + FCRAM_SIZE - 1
    /\ ret = <<LINEAR_HEAP_VADDR_END - 1, NEW_LINEAR_HEAP_VADDR + FCRAM_SIZE - 1>>
\* an address of the enhanced-only tail has been translated to its one alias
C13_WitnessTail ==
    /\ op.name = "PhysicalToVirtualAddressForRasterizer"
    /\ op.paddr = FCRAM_PADDR + FCRAM_SIZE
    /\ Len(ret) = 1

\* paddr lies in one of the four physical windows [base, base + size)
InPhysicalWindow(paddr) ==
    \/ paddr \in VRAM_PADDR .. (VRAM_PADDR + VRAM_SIZE - 1)
    \/ paddr \in DSP_RAM_PADDR .. (DSP_RAM_PADDR + DSP_RAM_SIZE - 1)
    \/ paddr \in FCRAM_PADDR .. (FCRAM_PADDR + FCRAM_N3DS_SIZE - 1)
    \/ paddr \in N3DS_EXTRA_RAM_PADDR .. (N3DS_EXTRA_RAM_PADDR + N3DS_EXTRA_RAM_SIZE - 1)

\* C14: GetPhysicalPointer(paddr) is non-null, and IsValidPhysicalAddress(paddr)
\* true, exactly when paddr lies in one of the four windows [base, base + size) of
\* VRAM, DSP RAM, FCRAM (enhanced size) and N3DS extra RAM; for every other paddr,
\* the first address past the end of each window included, they are null and false.
C14_PhysicalWindows ==
    /\ op.name = "GetPhysicalPointer" => ((ret # NULL) <=> InPhysicalWindow(op.paddr))
    /\ op.name = "IsValidPhysicalAddress" => (ret <=> InPhysicalWindow(op.paddr))

\* C15: RasterizerMarkRegionCached, invoked from the rasterizer thread while the
\* CPU side registers, unregisters, maps and unmaps, runs under a lock that covers
\* its traversal of the list and its attribute and pointer writes: while a call is
\* in progress every step is a step of that call, and the list it traverses is the
\* list as it was when the call began.
C15_MarkUnderLock ==
    [][rasterizer # Idle =>
          /\ rasterizer' # rasterizer
          /\ page_table_list' = rasterizer.list
      ]_vars

\* C16: MapMemoryRegion or UnmapRegion with size 0, at any page-aligned base (a
\* base strictly inside a cacheable window included), changes no page-table entry
\* and no marker bit and makes no call to the rasterizer.
C16_ZeroSizeNoOp ==
    [][(op'.name \in {"MapMemoryRegion", "UnmapRegion"} /\ op'.size = 0) =>
          /\ attributes' = attributes
          /\ pointers' = pointers
          /\ cache_marker' = cache_marker
          /\ RasterizerCalls(trace') = <<>>
      ]_vars

\* C17: RasterizerMarkRegionCached leaves every attribute and every pointer of every
\* page table that is not in the registered list at the time of the call unchanged,
\* in particular those of a table that was registered and has been unregistered.
C17_OnlyRegistered ==
    [][op'.name = "RasterizerMarkRegionCached" =>
          \A t \in Tables : ~Registered(t) =>
              /\ attributes'[t] = attributes[t]
              /\ pointers'[t] = pointers[t]
      ]_vars
\* A, whose VRAM page went cached earlier, is not registered when FCRAM is marked:
\* its linear-heap page is still Memory with its pointer, B's alias page is cached
C17_Witness ==
    /\ IsMark /\ op.cached /\ op.start = FCRAM_PADDR /\ ~aborted
    /\ ~Registered("A") /\ Registered("B")
    /\ IsCached(cache_marker, LINEAR_HEAP_VADDR)
    /\ attributes["A"][LINEAR_HEAP_VADDR \div PAGE_SIZE] = Memory
    /\ pointers["A"][LINEAR_HEAP_VADDR \div PAGE_SIZE] # NULL
    /\ attributes["A"][VRAM_VADDR \div PAGE_SIZE] = RasterizerCachedMemory
    /\ attributes["B"][NEW_LINEAR_HEAP_VADDR \div PAGE_SIZE] = RasterizerCachedMemory

\* a registered table has an entry of the given type at an alias of a page of
\* [start, start + size)
AffectedEntry(start, size, type) ==
    \E t \in Tables : \E pp \in PagesOfRange(start, size) : \E pg \in AliasPages(pp) :
        Registered(t) /\ attributes[t][pg] = type

\* C18: RasterizerMarkRegionCached with cached = true aborts when a registered
\* table's entry at an affected alias is already RasterizerCachedMemory, and with
\* cached = false when such an entry is Memory; so marking a page that a registered
\* table maps cached twice in a row, or uncached twice in a row, aborts.
C18_MarkAborts ==
    [][(op'.name = "RasterizerMarkRegionCached" /\ op'.start # 0) =>
          /\ (op'.cached /\ AffectedEntry(op'.start, op'.size, RasterizerCachedMemory))
                => aborted'
          /\ (~op'.cached /\ AffectedEntry(op'.start, op'.size, Memory)) => aborted'
          /\ (/\ IsMark /\ op.start = op'.start /\ op.size = op'.size
              /\ op.cached = op'.cached
              /\ \/ AffectedEntry(op'.start, op'.size, Memory)
                 \/ AffectedEntry(op'.start, op'.size, RasterizerCachedMemory)) => aborted'
      ]_vars
\* the second mark(true) in a row of the VRAM page, which A maps, has aborted
C18_Witness ==
    /\ IsMark /\ op.cached /\ op.start = VRAM_PADDR /\ aborted
    /\ Registered("A")
    /\ pre.attributes["A"][VRAM_VADDR \div PAGE_SIZE] = RasterizerCachedMemory
    /\ IsCached(cache_marker, VRAM_VADDR)
\* a mark(false) of the FCRAM page, which A maps as Memory, has aborted
C18_WitnessUncached ==
    /\ IsMark /\ ~op.cached /\ op.start = FCRAM_PADDR /\ aborted
    /\ Registered("A")
    /\ attributes["A"][LINEAR_HEAP_VADDR \div PAGE_SIZE] = Memory

\* the three cacheable windows: <<virtual base, length, physical base>>
CacheableWindows ==
    {<<LINEAR_HEAP_VADDR, LINEAR_HEAP_SIZE, FCRAM_PADDR>>,
     <<NEW_LINEAR_HEAP_VADDR, NEW_LINEAR_HEAP_SIZE, FCRAM_PADDR>>,
     <<VRAM_VADDR, VRAM_SIZE, VRAM_PADDR>>}
\* the addresses of window w in [start, start + size)
Overlap(w, start, size) == (start .. (start + size - 1)) \cap (w[1] .. (w[1] + w[2] - 1))
\* the rasterizer call the claim asks for window w, whose overlap is not empty
CallFor(w, start, size, mode) ==
    LET I == Overlap(w, start, size)
        first == CHOOSE a \in I : \A b \in I : a <= b
    IN <<mode, "paddr", w[3] + (first - w[1]), Cardinality(I)>>

\* C19: RasterizerFlushVirtualRegion(vaddr_start, size, mode) calls the rasterizer
\* once for each of the three cacheable windows whose intersection with
\* [vaddr_start, vaddr_start + size) is not empty and for no other window (so
\* never when size is 0); each call uses the entry point of mode and the physical
\* range (window physical base + (overlap start - window virtual base), overlap
\* length).
C19_FlushDispatch ==
    op.name = "RasterizerFlushVirtualRegion" =>
        LET hit == {w \in CacheableWindows : Overlap(w, op.start, op.size) # {}}
        IN /\ Len(trace) = Cardinality(hit)
           /\ \A w \in hit : CallFor(w, op.start, op.size, op.mode) \in Range(trace)
           /\ \A e \in Range(trace) :
                 \E w \in hit : e = CallFor(w, op.start, op.size, op.mode)

IsEntryWrite(e) == e[1] = "entry"

\* C20: in every MapMemoryRegion and UnmapRegion call the FlushAndInvalidate
\* dispatch over [base, base + size) happens before the first page-table entry of
\* the range is written, and no rasterizer call happens after the first entry
\* write of that call.
C20_FlushBeforeWrite ==
    (IsMap \/ IsUnmap) =>
        LET calls == RasterizerCalls(trace)
            hit == {w \in CacheableWindows : Overlap(w, op.base, op.size) # {}}
        IN /\ \A i, j \in 1 .. Len(trace) :
                 (IsEntryWrite(trace[i]) /\ IsRasterizerCall(trace[j])) => j < i
           /\ SubSeq(trace, 1, Len(calls)) = calls
           /\ (\E i \in 1 .. Len(trace) : IsEntryWrite(trace[i])) =>
                 /\ Len(calls) = Cardinality(hit)
                 /\ \A w \in hit :
                       CallFor(w, op.base, op.size, FlushAndInvalidate) \in Range(calls)
\* a map over the linear-heap page and the VRAM page: two flushes, then the two
\* entry writes
C20_Witness ==
    /\ IsMap /\ ~aborted
    /\ Len(trace) = 4
    /\ trace[1] = <<FlushAndInvalidate, "paddr", FCRAM_PADDR, PAGE_SIZE>>
    /\ trace[2] = <<FlushAndInvalidate, "paddr", VRAM_PADDR, PAGE_SIZE>>
    /\ IsEntryWrite(trace[3]) /\ IsEntryWrite(trace[4])
\* an unmap of a cached VRAM page: the flush, then the entry write
C20_WitnessUnmap ==
    /\ IsUnmap /\ ~aborted
    /\ trace = <<<<FlushAndInvalidate, "paddr", VRAM_PADDR, PAGE_SIZE>>,
                 <<"entry", "page", VRAM_VADDR \div PAGE_SIZE, 1>>>>
    /\ IsCached(cache_marker, VRAM_VADDR)

\* every occurrence of event a in the trace is before every occurrence of event b
Before(a, b) == \A i, j \in 1 .. Len(trace) : (trace[i] = a /\ trace[j] = b) => i < j
\* the source chunks of the CopyBlock in op: <<source address, destination address,
\* length>>, one per source page
CopyChunks ==
    {<<SubRange(op.src_addr, op.size, pg)[1],
       op.addr + (SubRange(op.src_addr, op.size, pg)[1] - op.src_addr),
       SubRange(op.src_addr, op.size, pg)[2]>> : pg \in SpanPages(op.src_addr, op.size)}
\* the writes of one chunk in process t: <<address, length>>, one per destination page
ChunkWrites(c) == {SubRange(c[2], c[3], pg) : pg \in SpanPages(c[2], c[3])}

\* C21: for each source chunk of CopyBlock whose source page is
\* RasterizerCachedMemory, the rasterizer Flush of the source sub-range is dispatched
\* before the Invalidate of the matching destination sub-range (when the destination
\* page is RasterizerCachedMemory), and the destination bytes are written only after
\* that Invalidate.
C21_CopyFlushOrder ==
    op.name = "CopyBlock" =>
        \A c \in CopyChunks : \A d \in ChunkWrites(c) :
            LET flush == <<Flush, "paddr", PhysicalOf(c[1]), c[3]>>
                invalidate == <<Invalidate, "paddr", PhysicalOf(d[1]), d[2]>>
                host == HostByte(op.process, d[1])
                store == <<"store", host[1], host[2], d[2]>>
                srcCached == TypeAt(op.src_process, c[1]) = RasterizerCachedMemory
                destCached == TypeAt(op.process, d[1]) = RasterizerCachedMemory
            IN /\ srcCached => flush \in Range(trace)
               /\ destCached => (invalidate \in Range(trace) /\ Before(invalidate, store))
               /\ TypeAt(op.process, d[1]) # Unmapped => store \in Range(trace)
               /\ (srcCached /\ destCached) => Before(flush, invalidate)
               /\ srcCached => Before(flush, store)
\* a chunk of the cached VRAM page has gone to two cached pages of B: the flush,
\* then for each destination page its invalidate and its write
C21_Witness ==
    /\ op.name = "CopyBlock" /\ op.src_addr = VRAM_VADDR + 1
    /\ trace = <<<<Flush, "paddr", VRAM_PADDR + 1, EdgeBytes + 1>>,
                 <<Invalidate, "paddr", FCRAM_PADDR + PAGE_SIZE - 1, 1>>,
                 <<"store", "fcram", PAGE_SIZE - 1, 1>>,
                 <<Invalidate, "paddr", FCRAM_PADDR + PAGE_SIZE, EdgeBytes>>,
                 <<"store", "fcram", PAGE_SIZE, EdgeBytes>>>>
    /\ mem["fcram"][PAGE_SIZE] # 0

\* the virtual pages that are aliases of a physical page that intersects
\* [start, start + size)
AliasesOfRange(start, size) == UNION {AliasPages(pp) : pp \in PagesOfRange(start, size)}

\* C22: RasterizerMarkRegionCached(start, size, cached) with start # 0 changes
\* marker bits and page-table entries only at virtual aliases of physical pages
\* that intersect [start, start + size); every other marker bit and entry is
\* unchanged, so a call with size 0 changes nothing, whether or not start is
\* page-aligned.
C22_MarkFrame ==
    [][(op'.name = "RasterizerMarkRegionCached" /\ op'.start # 0) =>
          \A pg \in Pages \ AliasesOfRange(op'.start, op'.size) :
              /\ IsCached(cache_marker', pg * PAGE_SIZE) = IsCached(cache_marker, pg * PAGE_SIZE)
              /\ \A t \in Tables : /\ attributes'[t][pg] = attributes[t][pg]
                                   /\ pointers'[t][pg] = pointers[t][pg]
      ]_vars

\* the pages of the three cacheable windows
WindowPages == {pg \in Pages : PhysicalOf(pg * PAGE_SIZE) # NoAddr}

\* C23: after any sequence of RegisterPageTable, UnregisterPageTable,
\* MapMemoryRegion, UnmapRegion and non-aborting RasterizerMarkRegionCached calls,
\* for every registered page table and every page of a cacheable window, attribute
\* RasterizerCachedMemory implies that the marker bit of the page is set and
\* attribute Memory that it is clear, also for a table that was mapped before it
\* was registered.
C23_MarkerAgreement ==
    ~aborted =>
        \A t \in Tables : Registered(t) =>
            \A pg \in WindowPages :
                /\ attributes[t][pg] = RasterizerCachedMemory
                      => IsCached(cache_marker, pg * PAGE_SIZE)
                /\ attributes[t][pg] = Memory => ~IsCached(cache_marker, pg * PAGE_SIZE)

\* the cacheable windows that hold the virtual address v
WindowsOf(v) == {w \in CacheableWindows : v >= w[1] /\ v < w[1] + w[2]}

\* C24: for every physical address p and every virtual address v of
\* PhysicalToVirtualAddressForRasterizer(p), v lies in exactly one cacheable
\* window, RasterizerFlushVirtualRegion(v, 1, mode) dispatches exactly one
\* rasterizer call and its physical start is p, and GetPointerForRasterizerCache(v)
\* is the same backing byte as GetPhysicalPointer(p).
C24_TranslationInverse ==
    op.name = "TranslationRoundTrip" =>
        \A j \in 1 .. Len(ret) :
            /\ Cardinality(WindowsOf(ret[j].vaddr)) = 1
            /\ ret[j].calls = <<<<op.mode, "paddr", op.paddr, 1>>>>
            /\ ret[j].pointer = ret[j].physical
            /\ ret[j].pointer \notin {NULL, ABORT}
\* the two aliases of the second byte of FCRAM
C24_Witness ==
    /\ op.name = "TranslationRoundTrip" /\ op.paddr = FCRAM_PADDR + 1
    /\ Len(ret) = 2
    /\ ret[1].vaddr = LINEAR_HEAP_VADDR + 1 /\ ret[2].vaddr = NEW_LINEAR_HEAP_VADDR + 1
    /\ ret[2].pointer = <<"fcram", 1>>

\* one address in every page of a table
PageAddresses == {pg * PAGE_SIZE + 1 : pg \in Pages}

\* C25: for every process whose table is registered and every virtual address v,
\* IsValidVirtualAddress(process, v) returns the same value before and after any
\* non-aborting RasterizerMarkRegionCached call; it is true exactly when the entry
\* of v has a non-null pointer or attribute RasterizerCachedMemory, and false for
\* every Unmapped entry.
C25_ValidityKept ==
    [][/\ \A t \in Tables : \A v \in PageAddresses :
             /\ IsValidVirtualAddress(t, v)' =
                   (pointers'[t][v \div PAGE_SIZE] # NULL
                      \/ attributes'[t][v \div PAGE_SIZE] = RasterizerCachedMemory)
             /\ attributes'[t][v \div PAGE_SIZE] = Unmapped => ~IsValidVirtualAddress(t, v)'
       /\ (op'.name = "RasterizerMarkRegionCached" /\ ~aborted') =>
             \A t \in Tables : Registered(t) =>
                 \A v \in PageAddresses :
                     IsValidVirtualAddress(t, v)' = IsValidVirtualAddress(t, v)
      ]_vars

=============================================================================
